---------------------------- MODULE Spec2Model ----------------------------
(***************************************************************************)
(* Model of TanStackRouterSitemapGenerator (src/src/generator.ts).         *)
(*                                                                         *)
(* JavaScript strings are sequences of one-character strings, so that      *)
(* startsWith, endsWith, includes, trim and the regular-expression         *)
(* replacements are computed character by character.  An object is a      *)
(* record; an absent property is a field outside the record's DOMAIN.      *)
(* A priority p is held as the integer 10 * p (tenths).                    *)
(***************************************************************************)
EXTENDS Naturals, Sequences, FiniteSets, TLC

VARIABLES
    optionsArg,   \* the sitemap options the caller holds: it passes them to the
                  \* constructor, or to the plugin with the plugin's own options
    routeTree,    \* the route tree the caller passes to the generation calls
    ncalls,       \* how many generation calls the caller issues
    entryPoints,  \* the operations of the generator the caller uses
    pluginArg,    \* how the caller creates the plugin, and the plugin's own options
    environment,  \* what buildEnd finds: NODE_ENV, its argument, the file system
    generator,    \* the generator: not yet built, built (this.options), or threw
    calls,        \* per generation call: position, locals and result
    rendered,     \* the direct call of entriesToXml: its argument and result
    plugin,       \* the plugin object: what the closure of buildEnd captured
    build         \* the run of buildEnd: position, error, files written, log

\* what the caller holds; no operation of the generator assigns to it
callerVars ==
    <<optionsArg, routeTree, ncalls, entryPoints, pluginArg, environment>>

vars == <<callerVars, generator, calls, rendered, plugin, build>>

(***************************************************************************)
(* Bounds of the model.                                                    *)
(***************************************************************************)
MaxNodes == 3     \* nodes of an enumerated route tree
MaxManual == 2    \* entries an enumerated manual-routes provider yields
MaxCalls == 2     \* generation calls on one generator
MaxEntries == 2   \* entries handed to entriesToXml directly

(***************************************************************************)
(* String primitives of JavaScript used by the generator.                  *)
(***************************************************************************)
startsWith(s, p) ==
    /\ Len(p) <= Len(s)
    /\ SubSeq(s, 1, Len(p)) = p

endsWith(s, p) ==
    /\ Len(p) <= Len(s)
    /\ SubSeq(s, Len(s) - Len(p) + 1, Len(s)) = p

includes(s, c) == \E i \in 1..Len(s) : s[i] = c

\* String.prototype.slice(0, -n)
sliceEnd(s, n) == IF Len(s) <= n THEN <<>> ELSE SubSeq(s, 1, Len(s) - n)

WhiteSpace == {" ", "\t", "\n"}

RECURSIVE trimStart(_)
trimStart(s) ==
    IF s # <<>> /\ Head(s) \in WhiteSpace THEN trimStart(Tail(s)) ELSE s

RECURSIVE trimEnd(_)
trimEnd(s) ==
    IF s # <<>> /\ s[Len(s)] \in WhiteSpace
    THEN trimEnd(SubSeq(s, 1, Len(s) - 1))
    ELSE s

\* String.prototype.trim()
trim(s) == trimEnd(trimStart(s))

\* s.replace(/\/+/g, '/'): every run of slashes becomes one slash
RECURSIVE collapseSlashes(_)
collapseSlashes(s) ==
    IF s = <<>> THEN <<>>
    ELSE IF Head(s) = "/" /\ Len(s) >= 2 /\ s[2] = "/"
         THEN collapseSlashes(Tail(s))
         ELSE <<Head(s)>> \o collapseSlashes(Tail(s))

\* s.replace(/\/$/, ''): one trailing slash, if any, is removed
stripTrailingSlash(s) ==
    IF s # <<>> /\ s[Len(s)] = "/" THEN SubSeq(s, 1, Len(s) - 1) ELSE s


(***************************************************************************)
(* Date.prototype.toISOString.  A Date is [time |-> ms since the epoch,     *)
(* valid |-> whether the time value is a number]; the modelled times lie in *)
(* the first day of the epoch, so the date part is 1970-01-01.  An invalid  *)
(* Date makes toISOString throw a RangeError (ManualThrows below).          *)
(***************************************************************************)
Digits == <<"0", "1", "2", "3", "4", "5", "6", "7", "8", "9">>

digit(n) == Digits[n + 1]

pad2(n) == <<digit(n \div 10), digit(n % 10)>>

pad3(n) == <<digit(n \div 100), digit((n \div 10) % 10), digit(n % 10)>>

toISOString(t) ==
    <<"1", "9", "7", "0", "-", "0", "1", "-", "0", "1", "T">>
        \o pad2(t \div 3600000) \o <<":">>
        \o pad2((t \div 60000) % 60) \o <<":">>
        \o pad2((t \div 1000) % 60) \o <<".">>
        \o pad3(t % 1000) \o <<"Z">>

(***************************************************************************)
(* The constructor (generator.ts:13-28).                                   *)
(***************************************************************************)
\* the value of an absent options argument
UndefinedOptions == [isUndefined |-> TRUE]

\* the object literal {} and the fallback `|| {}`
EmptyObject == <<>>

BaseUrlError == "baseUrl is required and cannot be empty"

\* mutant: the whitespace test is forgotten
constructorRejectsUntrimmed(options) ==
    \/ options = UndefinedOptions
    \/ "baseUrl" \notin DOMAIN options
    \/ options.baseUrl = <<>>

\* !options || !options.baseUrl || options.baseUrl.trim() === ''
constructorRejects(options) ==
    \/ options = UndefinedOptions
    \/ "baseUrl" \notin DOMAIN options
    \/ options.baseUrl = <<>>
    \/ trim(options.baseUrl) = <<>>

Weekly == <<"w", "e", "e", "k", "l", "y">>

\* the defaults of generator.ts:19-25; now is the clock read by new Date()
defaultOptions(now) ==
    [defaultChangefreq |-> Weekly,
     defaultPriority   |-> 5,
     excludeRoutes     |-> <<>>,
     routeOptions      |-> EmptyObject,
     trailingSlash     |-> FALSE,
     lastmod           |-> toISOString(now),
     prettyPrint       |-> TRUE]

\* { ...defaults, ...options }: the caller's properties win
mergedOptions(options, now) == options @@ defaultOptions(now)

(***************************************************************************)
(* Path building and filtering (generator.ts:68-126).                      *)
(***************************************************************************)
isDynamicRoute(routePath) ==
    \/ includes(routePath, "$")
    \/ includes(routePath, "[")
    \/ includes(routePath, "]")

IndexName == <<"i", "n", "d", "e", "x">>

RootName == <<"_", "_", "r", "o", "o", "t", "_", "_">>

\* mutant: a dynamic segment hands the parent's path down
buildFullPathThroughDynamic(parentPath, routePath) ==
    IF startsWith(routePath, <<"/">>) THEN routePath
    ELSE IF isDynamicRoute(routePath) THEN parentPath
    ELSE IF routePath = <<>> \/ routePath = IndexName
         THEN (IF parentPath # <<>> THEN parentPath ELSE <<"/">>)
    ELSE IF routePath = RootName THEN <<>>
    ELSE collapseSlashes(
             IF parentPath = <<"/">>
             THEN <<"/">> \o routePath
             ELSE parentPath \o <<"/">> \o routePath)

\* mutant: the joined path is returned without collapsing its slashes
buildFullPathUncollapsed(parentPath, routePath) ==
    IF startsWith(routePath, <<"/">>) THEN routePath
    ELSE IF isDynamicRoute(routePath) THEN <<>>
    ELSE IF routePath = <<>> \/ routePath = IndexName
         THEN (IF parentPath # <<>> THEN parentPath ELSE <<"/">>)
    ELSE IF routePath = RootName THEN <<>>
    ELSE IF parentPath = <<"/">>
         THEN <<"/">> \o routePath
         ELSE parentPath \o <<"/">> \o routePath

buildFullPath(parentPath, routePath) ==
    IF startsWith(routePath, <<"/">>) THEN routePath
    ELSE IF isDynamicRoute(routePath) THEN <<>>
    ELSE IF routePath = <<>> \/ routePath = IndexName
         THEN (IF parentPath # <<>> THEN parentPath ELSE <<"/">>)
    ELSE IF routePath = RootName THEN <<>>
    ELSE collapseSlashes(
             IF parentPath = <<"/">>
             THEN <<"/">> \o routePath
             ELSE parentPath \o <<"/">> \o routePath)

\* excludePath.replace(/\*+/g, '.*'): every run of stars becomes ".*"
RECURSIVE replaceStars(_)
replaceStars(s) ==
    IF s = <<>> THEN <<>>
    ELSE IF Head(s) = "*"
         THEN IF Len(s) >= 2 /\ s[2] = "*"
              THEN replaceStars(Tail(s))
              ELSE <<".", "*">> \o replaceStars(Tail(s))
         ELSE <<Head(s)>> \o replaceStars(Tail(s))

\* .replace(/\?/g, '.')
replaceQuestions(s) == [i \in 1..Len(s) |-> IF s[i] = "?" THEN "." ELSE s[i]]

LineTerminators == {"\n", "\r"}

\* one regular-expression atom against one character: "." is any character
\* but a line terminator, any other modelled character stands for itself
atomMatches(a, c) == IF a = "." THEN c \notin LineTerminators ELSE a = c

\* new RegExp('^' + re + '$').test(s), for a source made of characters,
\* "." and atoms followed by "*" (any number) or "+" (one or more)
RECURSIVE regexTest(_, _)
regexTest(re, s) ==
    IF re = <<>> THEN s = <<>>
    ELSE IF Len(re) >= 2 /\ re[2] = "*"
         THEN \/ regexTest(Tail(Tail(re)), s)
              \/ /\ s # <<>>
                 /\ atomMatches(re[1], s[1])
                 /\ regexTest(re, Tail(s))
    ELSE IF Len(re) >= 2 /\ re[2] = "+"
         THEN /\ s # <<>>
              /\ atomMatches(re[1], s[1])
              /\ regexTest(<<re[1], "*">> \o Tail(Tail(re)), Tail(s))
         ELSE /\ s # <<>>
              /\ atomMatches(re[1], s[1])
              /\ regexTest(Tail(re), Tail(s))

\* mutant: a pattern ending in "/*" takes every path that starts with the
\* stripped pattern, followed by a slash or not
excludeMatchesBarePrefix(excludePath, path) ==
    IF includes(excludePath, "*")
    THEN LET pattern  == replaceQuestions(replaceStars(excludePath))
             basePath == sliceEnd(excludePath, 2)
         IN  IF /\ endsWith(excludePath, <<"/", "*">>)
                /\ startsWith(path, basePath)
             THEN TRUE
             ELSE regexTest(pattern, path)
    ELSE path = excludePath

\* the callback of excludeRoutes.some (generator.ts:105-125)
excludeMatches(excludePath, path) ==
    IF includes(excludePath, "*")
    THEN LET pattern  == replaceQuestions(replaceStars(excludePath))
             basePath == sliceEnd(excludePath, 2)
         IN  IF /\ endsWith(excludePath, <<"/", "*">>)
                /\ (path = basePath \/ startsWith(path, basePath \o <<"/">>))
             THEN TRUE
             ELSE regexTest(pattern, path)
    ELSE path = excludePath

isExcludedRoute(o, path) ==
    \E i \in 1..Len(o.excludeRoutes) : excludeMatches(o.excludeRoutes[i], path)

(***************************************************************************)
(* The tree walk (generator.ts:33-66).  A route is a record with optional  *)
(* fields path and children; NullRoute is a null or undefined route.       *)
(***************************************************************************)
NullRoute == [isNull |-> TRUE]

\* route.path || ''
pathOf(route) ==
    IF "path" \in DOMAIN route THEN route.path ELSE <<>>

\* route.children && Array.isArray(route.children): a children value that
\* is no array (an object, a string) is the value NotAnArray
NotAnArray == <<[isArray |-> FALSE]>>

\* mutant: Array.isArray is not asked
hasChildrenProperty(route) == "children" \in DOMAIN route

hasChildArray(route) ==
    /\ "children" \in DOMAIN route
    /\ route.children # NotAnArray

\* this.options.routeOptions[fullPath] || {}
sitemapOptionsFor(o, fullPath) ==
    IF fullPath \in DOMAIN o.routeOptions
    THEN o.routeOptions[fullPath]
    ELSE EmptyObject

RECURSIVE extractRoutesFromTree(_, _, _)
RECURSIVE extractChildren(_, _, _)
RECURSIVE extractChildrenReversed(_, _, _)

\* mutant: the children are walked last to first
extractChildrenReversed(o, children, fullPath) ==
    IF children = <<>> THEN <<>>
    ELSE extractChildrenReversed(o, Tail(children), fullPath)
             \o extractRoutesFromTree(o, Head(children), fullPath)

\* mutant: the children of an excluded node are not walked
extractRoutesFromTreePruned(o, route, parentPath) ==
    IF route = NullRoute THEN <<>>
    ELSE LET routePath == pathOf(route)
             fullPath  == buildFullPath(parentPath, routePath)
             own == IF /\ fullPath # <<>>
                       /\ ~isDynamicRoute(routePath)
                       /\ ~isExcludedRoute(o, fullPath)
                    THEN <<[path              |-> fullPath,
                            includedInSitemap |-> TRUE,
                            sitemapOptions    |-> sitemapOptionsFor(o, fullPath)]>>
                    ELSE <<>>
         IN  IF hasChildArray(route) /\ ~isExcludedRoute(o, fullPath)
             THEN own \o extractChildren(o, route.children, fullPath)
             ELSE own

extractRoutesFromTree(o, route, parentPath) ==
    IF route = NullRoute THEN <<>>
    ELSE LET routePath == pathOf(route)
             fullPath  == buildFullPath(parentPath, routePath)
             own == IF /\ fullPath # <<>>
                       /\ ~isDynamicRoute(routePath)
                       /\ ~isExcludedRoute(o, fullPath)
                    THEN <<[path              |-> fullPath,
                            includedInSitemap |-> TRUE,
                            sitemapOptions    |-> sitemapOptionsFor(o, fullPath)]>>
                    ELSE <<>>
         IN  IF hasChildArray(route)
             THEN own \o extractChildren(o, route.children, fullPath)
             ELSE own

\* the for-of loop over route.children (generator.ts:60-62)
extractChildren(o, children, fullPath) ==
    IF children = <<>> THEN <<>>
    ELSE extractRoutesFromTree(o, Head(children), fullPath)
             \o extractChildren(o, Tail(children), fullPath)

\* mutant: the index of the last descriptor with the path
findLastIndexOfPath(self, path) ==
    CHOOSE i \in 1..Len(self) :
        /\ self[i].path = path
        /\ \A j \in (i + 1)..Len(self) : self[j].path # path

\* self.findIndex((r) => r.path === route.path)
findIndexOfPath(self, path) ==
    CHOOSE i \in 1..Len(self) :
        /\ self[i].path = path
        /\ \A j \in 1..(i - 1) : self[j].path # path

\* the predicate of generator.ts:138-140
isFirstIncluded(self, index) ==
    /\ self[index].includedInSitemap
    /\ findIndexOfPath(self, self[index].path) = index

\* routes.filter(...) from position i on, in order
RECURSIVE filterFirstIncluded(_, _)
filterFirstIncluded(self, i) ==
    IF i > Len(self) THEN <<>>
    ELSE (IF isFirstIncluded(self, i) THEN <<self[i]>> ELSE <<>>)
             \o filterFirstIncluded(self, i + 1)

uniqueRoutesOf(routes) == filterFirstIncluded(routes, 1)

(***************************************************************************)
(* Entries (generator.ts:175-225).                                         *)
(***************************************************************************)
\* mutant: every trailing slash of baseUrl is removed
buildFullUrlAllSlashes(o, path) ==
    LET baseUrl  == stripTrailingSlash(stripTrailingSlash(o.baseUrl))
        fullPath == IF o.trailingSlash /\ ~endsWith(path, <<"/">>)
                    THEN path \o <<"/">>
                    ELSE path
    IN  baseUrl \o fullPath

buildFullUrl(o, path) ==
    LET baseUrl  == stripTrailingSlash(o.baseUrl)
        fullPath == IF /\ o.trailingSlash
                       /\ ~endsWith(path, <<"/">>)
                       /\ path # <<"/">>
                    THEN path \o <<"/">>
                    ELSE path
    IN  baseUrl \o fullPath

\* route.sitemapOptions?.f || fallback, for the string fields: an absent or
\* empty value is falsy
orString(obj, f, fallback) ==
    IF f \in DOMAIN obj /\ obj[f] # <<>> THEN obj[f] ELSE fallback

\* route.sitemapOptions?.priority || fallback: absent and 0 are falsy
orNumber(obj, f, fallback) ==
    IF f \in DOMAIN obj /\ obj[f] # 0 THEN obj[f] ELSE fallback

createSitemapEntry(o, route) ==
    [url        |-> buildFullUrl(o, route.path),
     lastmod    |-> orString(route.sitemapOptions, "lastmod", o.lastmod),
     changefreq |-> orString(route.sitemapOptions, "changefreq",
                             o.defaultChangefreq),
     priority   |-> orNumber(route.sitemapOptions, "priority",
                             o.defaultPriority)]

\* the lastMod conversion of generator.ts:179-186; NoLastmod is undefined
NoLastmod == <<>>

\* whether createManualSitemapEntry throws: toISOString of an invalid Date
manualThrows(route) ==
    /\ "lastMod" \in DOMAIN route
    /\ route.lastMod.type = "Date"
    /\ ~route.lastMod.valid

manualLastmod(route) ==
    IF "lastMod" \notin DOMAIN route THEN NoLastmod
    ELSE IF route.lastMod.type = "Date" THEN toISOString(route.lastMod.time)
    ELSE route.lastMod.value

\* mutant: the priority of a manual entry falls back as that of a static
\* entry does, a priority of 0 included
createManualSitemapEntryFalsy(o, route) ==
    LET lastmod == manualLastmod(route)
    IN  [url        |-> buildFullUrl(o, route.location),
         lastmod    |-> IF lastmod # <<>> THEN lastmod ELSE o.lastmod,
         changefreq |-> orString(route, "changeFrequency", o.defaultChangefreq),
         priority   |-> orNumber(route, "priority", o.defaultPriority)]

createManualSitemapEntry(o, route) ==
    LET lastmod == manualLastmod(route)
    IN  [url        |-> buildFullUrl(o, route.location),
         lastmod    |-> IF lastmod # <<>> THEN lastmod ELSE o.lastmod,
         changefreq |-> orString(route, "changeFrequency", o.defaultChangefreq),
         priority   |-> IF "priority" \in DOMAIN route
                        THEN route.priority
                        ELSE o.defaultPriority]

(***************************************************************************)
(* The XML renderer (generator.ts:238-276).                                *)
(***************************************************************************)
\* the scan of text.replace(/c/g, rep) from position i on
RECURSIVE replaceFrom(_, _, _, _)
replaceFrom(text, i, c, rep) ==
    IF i > Len(text) THEN <<>>
    ELSE (IF text[i] = c THEN rep ELSE <<text[i]>>)
             \o replaceFrom(text, i + 1, c, rep)

\* text.replace(/c/g, rep) for a one-character pattern; the receiver is
\* evaluated once, then scanned
replaceAll(text, c, rep) ==
    CHOOSE r \in { replaceFrom(t, 1, c, rep) : t \in {text} } : TRUE

AmpEntity == <<"&", "a", "m", "p", ";">>

LtEntity == <<"&", "l", "t", ";">>

GtEntity == <<"&", "g", "t", ";">>

QuotEntity == <<"&", "q", "u", "o", "t", ";">>

AposEntity == <<"&", "a", "p", "o", "s", ";">>

\* mutant: '&' is replaced last
escapeXmlAmpLast(text) ==
    replaceAll(
        replaceAll(
            replaceAll(
                replaceAll(
                    replaceAll(text, "<", LtEntity),
                    ">", GtEntity),
                "\"", QuotEntity),
            "'", AposEntity),
        "&", AmpEntity)

\* the five replacements in the order of generator.ts:270-275
escapeXml(text) ==
    replaceAll(
        replaceAll(
            replaceAll(
                replaceAll(
                    replaceAll(text, "&", AmpEntity),
                    "<", LtEntity),
                ">", GtEntity),
            "\"", QuotEntity),
        "'", AposEntity)

\* entry.priority.toFixed(1), the priority being held in tenths
toFixed1(p) == <<digit(p \div 10), ".", digit(p % 10)>>

XmlDeclaration ==
    <<"<", "?", "x", "m", "l", " ", "v", "e", "r", "s", "i", "o", "n",
      "=", "\"", "1", ".", "0", "\"", " ", "e", "n", "c", "o", "d",
      "i", "n", "g", "=", "\"", "U", "T", "F", "-", "8", "\"", "?",
      ">">>

UrlsetOpen ==
    <<"<", "u", "r", "l", "s", "e", "t", " ", "x", "m", "l", "n", "s",
      "=", "\"", "h", "t", "t", "p", ":", "/", "/", "w", "w", "w", ".",
      "s", "i", "t", "e", "m", "a", "p", "s", ".", "o", "r", "g", "/",
      "s", "c", "h", "e", "m", "a", "s", "/", "s", "i", "t", "e", "m",
      "a", "p", "/", "0", ".", "9", "\"", ">">>

UrlsetClose == <<"<", "/", "u", "r", "l", "s", "e", "t", ">">>

UrlOpen == <<"<", "u", "r", "l", ">">>

UrlClose == <<"<", "/", "u", "r", "l", ">">>

\* <name> and </name>
openTag(name) == <<"<">> \o name \o <<">">>

closeTag(name) == <<"<", "/">> \o name \o <<">">>

LocName == <<"l", "o", "c">>

LastmodName == <<"l", "a", "s", "t", "m", "o", "d">>

ChangefreqName == <<"c", "h", "a", "n", "g", "e", "f", "r", "e", "q">>

PriorityName == <<"p", "r", "i", "o", "r", "i", "t", "y">>

\* this.options.prettyPrint ? '  ' : '' and ? '\n' : ''
indentOf(o) == IF o.prettyPrint THEN <<" ", " ">> ELSE <<>>

\* mutant: the newlines are written whatever prettyPrint is
newlineAlways(o) == <<"\n">>

newlineOf(o) == IF o.prettyPrint THEN <<"\n">> ELSE <<>>

\* one child element of a url block, on its own line (generator.ts:248-260)
childLine(o, name, text) ==
    indentOf(o) \o indentOf(o) \o openTag(name) \o text \o closeTag(name)
        \o newlineOf(o)

\* `if (entry.lastmod)`, `if (entry.changefreq)`: defined and not empty
truthyString(entry, f) == f \in DOMAIN entry /\ entry[f] # <<>>

\* mutant: the priority element comes before the changefreq element
urlBlockPriorityFirst(o, entry) ==
    indentOf(o) \o UrlOpen \o newlineOf(o)
        \o childLine(o, LocName, escapeXml(entry.url))
        \o (IF truthyString(entry, "lastmod")
            THEN childLine(o, LastmodName, entry.lastmod) ELSE <<>>)
        \o (IF "priority" \in DOMAIN entry
            THEN childLine(o, PriorityName, toFixed1(entry.priority)) ELSE <<>>)
        \o (IF truthyString(entry, "changefreq")
            THEN childLine(o, ChangefreqName, entry.changefreq) ELSE <<>>)
        \o indentOf(o) \o UrlClose \o newlineOf(o)

\* the body of the loop over the entries (generator.ts:246-263)
urlBlock(o, entry) ==
    indentOf(o) \o UrlOpen \o newlineOf(o)
        \o childLine(o, LocName, escapeXml(entry.url))
        \o (IF truthyString(entry, "lastmod")
            THEN childLine(o, LastmodName, entry.lastmod) ELSE <<>>)
        \o (IF truthyString(entry, "changefreq")
            THEN childLine(o, ChangefreqName, entry.changefreq) ELSE <<>>)
        \o (IF "priority" \in DOMAIN entry
            THEN childLine(o, PriorityName, toFixed1(entry.priority)) ELSE <<>>)
        \o indentOf(o) \o UrlClose \o newlineOf(o)

RECURSIVE urlBlocks(_, _)
urlBlocks(o, entries) ==
    IF entries = <<>> THEN <<>>
    ELSE urlBlock(o, Head(entries)) \o urlBlocks(o, Tail(entries))

entriesToXml(o, entries) ==
    XmlDeclaration \o newlineOf(o)
        \o UrlsetOpen \o newlineOf(o)
        \o urlBlocks(o, entries)
        \o UrlsetClose

(***************************************************************************)
(* generateManualRoutes after the provider's result is in hand             *)
(* (generator.ts:163-169): filter, then map; a throw anywhere inside the   *)
(* try block is caught and the manual set is empty.                        *)
(***************************************************************************)
\* mutant: the filter tests the location as buildFullUrl will append it
notExcludedNormalized(o, entries) ==
    SelectSeq(entries, LAMBDA route :
        ~isExcludedRoute(o, IF /\ o.trailingSlash
                               /\ ~endsWith(route.location, <<"/">>)
                               /\ route.location # <<"/">>
                            THEN route.location \o <<"/">>
                            ELSE route.location))

\* manualRoutes.filter((route) => !this.isExcludedRoute(route.location))
notExcluded(o, entries) ==
    SelectSeq(entries, LAMBDA route : ~isExcludedRoute(o, route.location))

convertThrows(o, entries) ==
    LET kept == notExcluded(o, entries)
    IN  \E i \in 1..Len(kept) : manualThrows(kept[i])

convertManualRoutes(o, entries) ==
    LET kept == notExcluded(o, entries)
    IN  IF convertThrows(o, entries) THEN <<>>
        ELSE [i \in 1..Len(kept) |-> createManualSitemapEntry(o, kept[i])]

(***************************************************************************)
(* A manual-routes provider is [kind, entries]: it returns the entries,    *)
(* throws, or returns a promise that later resolves with the entries or    *)
(* rejects.  The outcome of generateManualRoutes, or of its try block, is  *)
(* [threw, entries, warned].                                               *)
(***************************************************************************)
ManualOk(entries) == [threw |-> FALSE, entries |-> entries, warned |-> FALSE]

ManualThrew == [threw |-> TRUE, entries |-> <<>>, warned |-> FALSE]

\* whether manualRoutes.filter(...) throws: the provider's result is no
\* array (the value NotAnArray), so it has no filter method
filterThrows(o) == o.manualRoutes.entries = NotAnArray

\* mutant: a generator that notes a provider call in flight and has the
\* calls that overlap it go without manual entries
tryManualRoutesOnePerGenerator(o) ==
    IF Cardinality({ d \in 1..MaxCalls :
                       calls[d].pc = "awaiting" /\ calls[d].pending }) >= 2
    THEN ManualOk(<<>>)
    ELSE IF o.manualRoutes.kind \in {"throws", "rejects"} THEN ManualThrew
    ELSE IF filterThrows(o) THEN ManualThrew
    ELSE IF convertThrows(o, o.manualRoutes.entries) THEN ManualThrew
    ELSE ManualOk(convertManualRoutes(o, o.manualRoutes.entries))

\* mutant: each entry is converted in a try block of its own, and the
\* entries whose conversion throws are left out
tryManualRoutesPerEntry(o) ==
    IF o.manualRoutes.kind \in {"throws", "rejects"} THEN ManualThrew
    ELSE IF filterThrows(o) THEN ManualThrew
    ELSE LET kept == SelectSeq(notExcluded(o, o.manualRoutes.entries),
                               LAMBDA route : ~manualThrows(route))
         IN  ManualOk([i \in 1..Len(kept) |->
                          createManualSitemapEntry(o, kept[i])])

\* the try block from the moment the provider's result arrives
\* (generator.ts:162-165)
tryManualRoutes(o) ==
    IF o.manualRoutes.kind \in {"throws", "rejects"} THEN ManualThrew
    ELSE IF filterThrows(o) THEN ManualThrew
    ELSE IF convertThrows(o, o.manualRoutes.entries) THEN ManualThrew
    ELSE ManualOk(convertManualRoutes(o, o.manualRoutes.entries))

\* the array .filter returned (generator.ts:163-164), when the provider's
\* result arrived
filteredManualRoutes(o) ==
    IF o.manualRoutes.kind \in {"throws", "rejects"} THEN <<>>
    ELSE IF filterThrows(o) THEN <<>>
    ELSE notExcluded(o, o.manualRoutes.entries)

\* mutant: the catch block rethrows
catchManualRoutesRethrows(outcome) ==
    IF outcome.threw
    THEN [threw |-> TRUE, entries |-> <<>>, warned |-> TRUE]
    ELSE outcome

\* the catch block (generator.ts:166-169): warn, and return no entries
catchManualRoutes(outcome) ==
    IF outcome.threw
    THEN [threw |-> FALSE, entries |-> <<>>, warned |-> TRUE]
    ELSE outcome

\* mutant: a manual entry whose url a static entry already has is dropped
combineEntriesDeduplicated(staticEntries, manualEntries) ==
    staticEntries \o SelectSeq(manualEntries,
        LAMBDA m : \A i \in 1..Len(staticEntries) : staticEntries[i].url # m.url)

\* mutant: the entries are collected in an array kept on the generator, so a
\* call returns those of the calls that returned before it as well
combineEntriesKeptOnGenerator(staticEntries, manualEntries) ==
    LET earlier == { d \in 1..MaxCalls : calls[d].pc \in {"rendering", "done"} }
        kept    == IF earlier = {} THEN <<>>
                   ELSE calls[CHOOSE d \in earlier : TRUE].result
    IN  kept \o staticEntries \o manualEntries

\* [...staticEntries, ...manualEntries] (generator.ts:150)
combineEntries(staticEntries, manualEntries) == staticEntries \o manualEntries

\* mutant: the array an earlier call returned is kept and returned again
keptArray ==
    LET returned == { calls[d].resultId : d \in 1..MaxCalls } \ {0}
    IN  IF returned = {} THEN Cardinality(returned) + 1
        ELSE CHOOSE id \in returned : TRUE

\* the array literal of generator.ts:150 is a new array: its identity is
\* the count of the arrays returned so far, plus one (0 is no array)
newArray == Cardinality({ d \in 1..MaxCalls : calls[d].resultId # 0 }) + 1

\* whether generateManualRoutes is suspended at `await this.options.manualRoutes()`
\* after the synchronous part of the call
providerPending(o) ==
    /\ "manualRoutes" \in DOMAIN o
    /\ o.manualRoutes.kind # "throws"

\* whether the provider's result is in hand when the call to it returns: it
\* returned the entries themselves, or threw; a promise settles later
settledAtInvoke(o) ==
    /\ "manualRoutes" \in DOMAIN o
    /\ o.manualRoutes.kind \in {"returns", "throws"}

\* mutant: the continuation runs without the provider's result
providerResultAssumed(call) == TRUE

\* `await this.options.manualRoutes()` (generator.ts:162): the continuation
\* runs once the awaited value has settled
providerResultArrived(call) == call.settled

\* what generateManualRoutes has settled to after the synchronous part: no
\* provider (generator.ts:157-159), or a provider that threw at once
manualAfterInvoke(o) ==
    IF "manualRoutes" \notin DOMAIN o THEN ManualOk(<<>>)
    ELSE IF o.manualRoutes.kind = "throws" THEN catchManualRoutes(ManualThrew)
    ELSE ManualOk(<<>>)

(***************************************************************************)
(* The plugin (index.ts:181-294).  A plugin is what the closure of         *)
(* buildEnd captured: the four options of its own, defaulted, and the rest *)
(* of the options object, which buildEnd hands to the generator.           *)
(***************************************************************************)
DefaultOutputPath ==
    <<"p", "u", "b", "l", "i", "c", "/",
      "s", "i", "t", "e", "m", "a", "p", ".", "x", "m", "l">>

PluginKeys == {"outputPath", "verbose", "routeTreePath", "onBuildOnly"}

\* a destructured property with a default value
orDefault(options, f, default) ==
    IF f \in DOMAIN options THEN options[f] ELSE default

\* ...sitemapOptions: the properties the destructuring did not name
restOptions(options) == [f \in DOMAIN options \ PluginKeys |-> options[f]]

\* mutant: the plugin validates baseUrl when it is created
sitemapPluginValidating(options) ==
    IF constructorRejects(restOptions(options))
    THEN [status |-> "threw", error |-> BaseUrlError]
    ELSE [status         |-> "created",
          outputPath     |-> orDefault(options, "outputPath", DefaultOutputPath),
          verbose        |-> orDefault(options, "verbose", FALSE),
          onBuildOnly    |-> orDefault(options, "onBuildOnly", FALSE),
          sitemapOptions |-> restOptions(options)]

\* sitemapPlugin(options) (index.ts:181-194): destructures and returns the
\* plugin object; routeTreePath is captured too and read by the file search,
\* whose outcome the environment gives
sitemapPlugin(options) ==
    [status         |-> "created",
     outputPath     |-> orDefault(options, "outputPath", DefaultOutputPath),
     verbose        |-> orDefault(options, "verbose", FALSE),
     onBuildOnly    |-> orDefault(options, "onBuildOnly", FALSE),
     sitemapOptions |-> restOptions(options)]

\* createSitemapPlugin(baseUrl, options) (index.ts:286-294):
\* { baseUrl, ...options }, a baseUrl among the options wins
createSitemapPlugin(baseUrl, options) ==
    sitemapPlugin(options @@ [baseUrl |-> baseUrl])

\* onBuildOnly && process.env.NODE_ENV !== 'production' (index.ts:200)
skipsGeneration(pl, env) == pl.onBuildOnly /\ env.nodeEnv # "production"

\* findRouteTreeFile (index.ts:38-62): the path of the first candidate file
\* that exists, or null
findRouteTreeFile(env) ==
    IF env.routeTreeFile = "missing" THEN "null" ELSE "found"

RouteTreeNotFoundError == "Could not find routeTree.gen.ts file"

ImportError == "Failed to import route tree"

\* the index of the last "/" of path, or 0
RECURSIVE lastSlash(_, _)
lastSlash(path, k) ==
    IF k = 0 THEN 0
    ELSE IF path[k] = "/" THEN k
    ELSE lastSlash(path, k - 1)

\* outputPath.split('/').slice(0, -1).join('/') (index.ts:249)
dirOf(path) ==
    LET k == lastSlash(path, Len(path))
    IN  IF k = 0 THEN <<>> ELSE SubSeq(path, 1, k - 1)

(***************************************************************************)
(* Inputs.  Route trees: every ordered tree of at most MaxNodes nodes (up  *)
(* to 4) whose nodes carry one of NodeLabels, and a few malformed trees.   *)
(***************************************************************************)
NodePaths ==
    { <<"/">>,                    \* the root path
      <<"a">>,                    \* plain segments
      <<"a", "b">>,
      IndexName,
      RootName,
      <<"$", "b">>,               \* a dynamic segment
      <<"/", "[", "b", "]">>,     \* a dynamic absolute path
      <<"/", "a", "/">> }         \* an absolute path ending in a slash

\* a node with one of the paths, or with no path property
NodeLabels == { [path |-> p] : p \in NodePaths } \cup { EmptyObject }

\* the nodes that the exclusion patterns and route options below tell apart
PlainLabels ==
    { [path |-> p] : p \in { <<"/">>, <<"a">>, <<"a", "b">>, <<"/", "a", "/">> } }

\* the trees of exactly n nodes labelled from L, given F[k], the non-empty
\* sequences of trees of k nodes in all; a leaf has no children property
newTrees(L, F, n) ==
    IF n = 1 THEN L
    ELSE { l @@ [children |-> f] : l \in L, f \in F[n - 1] }

\* the non-empty sequences of trees of n nodes in all
newForests(T, F, n) ==
    UNION { { <<t>> \o f
              : t \in T[k], f \in (IF k = n THEN { <<>> } ELSE F[n - k]) }
            : k \in 1..n }

\* the trees of 1 to 4 nodes labelled from NodeLabels, size by size (each
\* size is enumerated once, and only when MaxNodes asks for it)
NodeTrees1 == newTrees(NodeLabels, <<>>, 1)

NodeForests1 == newForests(<<NodeTrees1>>, <<>>, 1)

NodeTrees2 ==
    IF MaxNodes < 2 THEN {} ELSE newTrees(NodeLabels, <<NodeForests1>>, 2)

NodeForests2 ==
    IF MaxNodes < 3 THEN {}
    ELSE newForests(<<NodeTrees1, NodeTrees2>>, <<NodeForests1>>, 2)

NodeTrees3 ==
    IF MaxNodes < 3 THEN {}
    ELSE newTrees(NodeLabels, <<NodeForests1, NodeForests2>>, 3)

NodeForests3 ==
    IF MaxNodes < 4 THEN {}
    ELSE newForests(<<NodeTrees1, NodeTrees2, NodeTrees3>>,
                    <<NodeForests1, NodeForests2>>, 3)

NodeTrees4 ==
    IF MaxNodes < 4 THEN {}
    ELSE newTrees(NodeLabels, <<NodeForests1, NodeForests2, NodeForests3>>, 4)

NodeTreesBySize == <<NodeTrees1, NodeTrees2, NodeTrees3, NodeTrees4>>

\* the same for PlainLabels
PlainTrees1 == newTrees(PlainLabels, <<>>, 1)

PlainForests1 == newForests(<<PlainTrees1>>, <<>>, 1)

PlainTrees2 ==
    IF MaxNodes < 2 THEN {} ELSE newTrees(PlainLabels, <<PlainForests1>>, 2)

PlainForests2 ==
    IF MaxNodes < 3 THEN {}
    ELSE newForests(<<PlainTrees1, PlainTrees2>>, <<PlainForests1>>, 2)

PlainTrees3 ==
    IF MaxNodes < 3 THEN {}
    ELSE newTrees(PlainLabels, <<PlainForests1, PlainForests2>>, 3)

PlainForests3 ==
    IF MaxNodes < 4 THEN {}
    ELSE newForests(<<PlainTrees1, PlainTrees2, PlainTrees3>>,
                    <<PlainForests1, PlainForests2>>, 3)

PlainTrees4 ==
    IF MaxNodes < 4 THEN {}
    ELSE newTrees(PlainLabels, <<PlainForests1, PlainForests2, PlainForests3>>, 4)

PlainTreesBySize == <<PlainTrees1, PlainTrees2, PlainTrees3, PlainTrees4>>

MalformedTrees ==
    { NullRoute,
      [children |-> NotAnArray],
      [path |-> <<"/">>, children |-> NotAnArray],
      [path |-> <<"/">>, children |-> <<>>],
      [path |-> <<"/">>, children |-> <<NullRoute, [path |-> <<"a">>]>>] }

\* { path: '/', children: [{ path: 'a' }, { path: 'ab' }] }
SmallTree ==
    [path |-> <<"/">>,
     children |-> <<[path |-> <<"a">>], [path |-> <<"a", "b">>]>>]

(***************************************************************************)
(* Inputs.  Options objects.                                               *)
(***************************************************************************)
Monthly == <<"m", "o", "n", "t", "h", "l", "y">>

Daily == <<"d", "a", "i", "l", "y">>

Year2023 == <<"2", "0", "2", "3">>

Year2024 == <<"2", "0", "2", "4">>

BaseOptions == [baseUrl |-> <<"h">>, lastmod |-> Year2023]

ExcludeLists ==
    { <<<<"/", "a", "/", "*">>>>,
      <<<<"/", "a">>>>,
      <<<<"/", "a", "*">>>>,
      <<<<"/", "a", "?", "*">>>>,
      <<<<"/", "m", "/", "*">>, <<"/", "a", "b">>>> }

RouteOptionSets ==
    { [p \in { <<"/", "a">>, <<"/">> } |->
          IF p = <<"/", "a">>
          THEN [priority |-> 9, changefreq |-> Monthly]
          ELSE [priority |-> 0, lastmod |-> Year2024]],
      [p \in { <<"/", "m">>, <<"/", "a", "/", "a">> } |->
          [priority |-> 1, changefreq |-> Daily, lastmod |-> Year2024]] }

\* options that vary what the tree walk and the entries depend on
WalkOptions ==
    { BaseOptions @@ [excludeRoutes |-> e] : e \in ExcludeLists }
        \cup { BaseOptions @@ [routeOptions |-> r] : r \in RouteOptionSets }
        \cup { BaseOptions @@ [trailingSlash |-> TRUE] }

BaseUrls ==
    { <<>>, <<" ">>, <<" ", "\t">>, <<"h">>, <<" ", "h">>, <<"h", "/">>,
      <<"h", "/", "/">>, <<"/">> }

\* options that vary what the constructor and buildFullUrl depend on
UrlOptions ==
    { UndefinedOptions, EmptyObject, [trailingSlash |-> TRUE] }
        \cup { [baseUrl |-> b] : b \in BaseUrls }
        \cup { [baseUrl |-> b, trailingSlash |-> t, defaultPriority |-> 8,
                defaultChangefreq |-> Daily]
               : b \in BaseUrls, t \in BOOLEAN }

(***************************************************************************)
(* Inputs.  Manual-routes providers.                                       *)
(***************************************************************************)
ManualEntrySet ==
    { [location |-> <<"/", "m">>],
      [location |-> <<"/", "a">>, priority |-> 0],
      [location |-> <<"/", "m", "/", "x">>, priority |-> 9,
       lastMod |-> [type |-> "string", value |-> Year2024],
       changeFrequency |-> Daily],
      [location |-> <<"/", "m">>,
       lastMod |-> [type |-> "Date", time |-> 45296789, valid |-> TRUE]],
      [location |-> <<"/", "m", "m">>,
       lastMod |-> [type |-> "Date", time |-> 0, valid |-> FALSE]] }

RECURSIVE SeqsUpTo(_, _)
SeqsUpTo(S, n) ==
    IF n = 0 THEN { <<>> }
    ELSE SeqsUpTo(S, n - 1)
             \cup { Append(q, x) : q \in SeqsUpTo(S, n - 1), x \in S }

Providers ==
    { [kind |-> k, entries |-> es]
      : k \in {"returns", "resolves"}, es \in SeqsUpTo(ManualEntrySet, MaxManual) }
        \cup { [kind |-> "throws", entries |-> <<>>],
               [kind |-> "rejects", entries |-> <<>>] }

ManualOptions ==
    { w @@ [manualRoutes |-> p]
      : w \in { BaseOptions,
                BaseOptions @@ [trailingSlash |-> TRUE],
                BaseOptions @@ [excludeRoutes |-> <<<<"/", "m", "/", "*">>>>],
                BaseOptions @@ [routeOptions |->
                    [q \in { <<"/", "m">>, <<"/", "a">> } |->
                        [priority |-> 1, changefreq |-> Monthly,
                         lastmod |-> Year2024]]] },
        p \in Providers }

\* exclude patterns that the provider also yields as a location: plain,
\* with "?", with "*", ending in "/*", and with "." or "+" before a "*"
PatternsAsPaths ==
    { <<"/", "a">>,
      <<"/", "a", "?">>,
      <<"/", "a", "*">>,
      <<"/", "a", "/", "*">>,
      <<"/", "a", "?", "*">>,
      <<"/", "a", ".", "*">>,
      <<"/", "a", "+", "b", "*">> }

EqualPathOptions ==
    { BaseOptions @@ [excludeRoutes |-> <<q>>,
                      manualRoutes  |-> [kind    |-> "returns",
                                         entries |-> <<[location |-> q]>>]]
      : q \in PatternsAsPaths }

\* trailingSlash with patterns that tell a raw location from the path
\* buildFullUrl appends: '/m' is excluded as given, '/a' is not although
\* '/a/' is a pattern
RawLocationOptions ==
    { BaseOptions @@ [trailingSlash |-> TRUE,
                      excludeRoutes |-> << <<"/", "m">>, <<"/", "a", "/">> >>,
                      manualRoutes  |->
                          [kind    |-> k,
                           entries |-> <<[location |-> <<"/", "a">>],
                                         [location |-> <<"/", "m">>],
                                         [location |-> <<"/", "m", "/", "x">>]>>]]
      : k \in {"returns", "resolves"} }

\* a provider yielding the empty location, under a baseUrl that is '/' alone
\* and under one that is not
EmptyLocationOptions ==
    { [baseUrl |-> b, lastmod |-> Year2023, trailingSlash |-> t,
       manualRoutes |-> [kind    |-> "returns",
                         entries |-> <<[location |-> <<>>]>>]]
      : b \in { <<"/">>, <<"h">> }, t \in BOOLEAN }

\* a provider whose result is no array, returned at once or through a promise
UnusableResultOptions ==
    { BaseOptions @@ [manualRoutes |-> [kind |-> k, entries |-> NotAnArray]]
      : k \in {"returns", "resolves"} }

\* the clock values new Date() may read in the constructor
Times == { 0, 45296789 }

(***************************************************************************)
(* The runs: what the caller constructs the generator with, the tree it    *)
(* passes, and how many generation calls it issues.                        *)
(***************************************************************************)
\* a location with each of the five characters escapeXml replaces, '&' also
\* after another replaced character and inside text that reads as an entity
SpecialLocation ==
    <<"/", "?", "<", "&", ">", "\"", "'", "&", "l", "t", ";">>

\* options that vary what the renderer depends on
XmlOptions ==
    { BaseOptions @@ [prettyPrint |-> b, manualRoutes |->
          [kind |-> "returns",
           entries |-> <<[location |-> SpecialLocation, priority |-> 0]>>]]
      : b \in BOOLEAN }

\* entries a caller may hand to entriesToXml: url alone, and with each of
\* the optional fields
DirectEntries ==
    { [url |-> SpecialLocation],
      [url |-> <<"h">>, lastmod |-> Year2024],
      [url |-> <<"h">>, changefreq |-> Daily],
      [url |-> <<"h">>, priority |-> 0],
      [url |-> <<"h", "&">>, lastmod |-> Year2023, changefreq |-> Monthly,
       priority |-> 10] }

DirectEntryLists == SeqsUpTo(DirectEntries, MaxEntries)

\* the options of the scenarios in which several generation calls overlap
ConcurrentOptions ==
    { BaseOptions,
      BaseOptions @@ [manualRoutes |->
          [kind |-> "resolves", entries |-> <<[location |-> <<"/", "m">>]>>]],
      BaseOptions @@ [manualRoutes |-> [kind |-> "rejects", entries |-> <<>>]] }

IdleCall ==
    [pc            |-> "idle",
     api           |-> "none",
     routes        |-> <<>>,
     uniqueRoutes  |-> <<>>,
     staticEntries |-> <<>>,
     pending       |-> FALSE,
     settled       |-> FALSE,
     filtered      |-> <<>>,
     manual        |-> ManualOk(<<>>),
     invocations   |-> 0,
     startedAfter  |-> FALSE,
     result        |-> <<>>,
     resultId      |-> 0,
     xml           |-> <<>>]

NotRendered == [status |-> "none"]

\* the caller uses the generator itself, not the plugin
NoPluginArg == [fn |-> "none"]

\* an environment for the runs without the plugin
QuietEnvironment ==
    [nodeEnv |-> "production", provided |-> TRUE, routeTreeFile |-> "missing",
     existingDirs |-> {<<>>}]

\* what buildEnd may find: NODE_ENV, a route tree passed to it or a file to
\* detect (missing, failing to import, or loading), and the directories
\* present; the working directory itself exists
Environments ==
    { env \in [nodeEnv       : {"production", "development"},
               provided      : BOOLEAN,
               routeTreeFile : {"missing", "fails", "loads"},
               existingDirs  : { {<<>>},
                                 {<<>>, <<"p", "u", "b", "l", "i", "c">>} }]
      : env.provided => env.routeTreeFile = "missing" }

\* the options of the plugin's own
PluginOwnOptions ==
    { EmptyObject,
      [verbose |-> TRUE],
      [onBuildOnly |-> TRUE],
      [onBuildOnly |-> TRUE, verbose |-> TRUE],
      [outputPath |-> <<"s", ".", "x">>],
      [outputPath |-> <<"d", "/", "s", ".", "x">>, verbose |-> TRUE,
       onBuildOnly |-> FALSE] }

\* the sitemap options handed to the plugin: baseUrl missing, empty, blank,
\* and usable, without and with a provider
PluginSitemapOptions ==
    { EmptyObject,
      [lastmod |-> Year2023],
      [baseUrl |-> <<>>],
      [baseUrl |-> <<" ">>],
      BaseOptions } \cup XmlOptions

PluginArgs ==
    { [fn |-> f, own |-> w]
      : f \in {"sitemapPlugin", "createSitemapPlugin"}, w \in PluginOwnOptions }

NoPlugin == [status |-> "none"]

IdleBuild ==
    [pc |-> "idle", error |-> "none", written |-> <<>>, madeDirs |-> {},
     logged |-> <<>>]

\* nothing has run yet
Untouched ==
    /\ generator = [status |-> "none"]
    /\ calls = [c \in 1..MaxCalls |-> IdleCall]
    /\ rendered = NotRendered
    /\ plugin = NoPlugin
    /\ build = IdleBuild

\* the caller creates the plugin from sitemap options o and the plugin's
\* options in pa, and the build runs buildEnd in environment env
PluginScenario(o, pa, env) ==
    /\ optionsArg = o
    /\ routeTree = SmallTree
    /\ ncalls = 0
    /\ entryPoints = {pa.fn}
    /\ pluginArg = pa
    /\ environment = env
    /\ Untouched

\* the caller holds options o and route tree t, will issue n generation
\* calls, and uses the operations in ep
Scenario(o, t, n, ep) ==
    /\ optionsArg = o
    /\ routeTree = t
    /\ ncalls = n
    /\ entryPoints = ep
    /\ pluginArg = NoPluginArg
    /\ environment = QuietEnvironment
    /\ Untouched

Init ==
    \/ \E n \in 1..MaxNodes :
         \E t \in NodeTreesBySize[n] :
             Scenario(BaseOptions, t, 1, {"generateSitemapEntries"})
    \/ \E t \in MalformedTrees :
         Scenario(BaseOptions, t, 1, {"generateSitemapEntries"})
    \/ \E o \in WalkOptions, n \in 1..MaxNodes :
         \E t \in PlainTreesBySize[n] :
             Scenario(o, t, 1, {"generateSitemapEntries"})
    \/ \E o \in UrlOptions \cup ManualOptions \cup EqualPathOptions
                  \cup XmlOptions \cup RawLocationOptions
                  \cup EmptyLocationOptions \cup UnusableResultOptions :
         Scenario(o, SmallTree, 1,
                  {"generateSitemapEntries", "generateXmlSitemap"})
    \/ \E o \in ConcurrentOptions :
         Scenario(o, SmallTree, MaxCalls,
                  {"generateSitemapEntries", "generateXmlSitemap"})
    \/ \E o \in XmlOptions : Scenario(o, SmallTree, 0, {"entriesToXml"})
    \/ \E o \in PluginSitemapOptions, pa \in PluginArgs, env \in Environments :
         /\ pa.fn = "createSitemapPlugin" => "baseUrl" \in DOMAIN o
         /\ PluginScenario(o, pa, env)

(***************************************************************************)
(* new TanStackRouterSitemapGenerator(options)                             *)
(***************************************************************************)
Construct ==
    /\ generator.status = "none"
    /\ pluginArg = NoPluginArg
    /\ \E now \in Times :
        generator' =
            IF constructorRejects(optionsArg)
            THEN [status |-> "threw", error |-> BaseUrlError]
            ELSE [status |-> "constructed",
                  options |-> mergedOptions(optionsArg, now)]
    /\ UNCHANGED <<callerVars, calls, rendered, plugin, build>>

(***************************************************************************)
(* generateSitemapEntries(routeTree) up to its await (generator.ts:131-148)*)
(* with generateManualRoutes up to its own await (generator.ts:156-162).   *)
(* generateXmlSitemap (generator.ts:230-231) calls it at once and awaits   *)
(* it, so both entry points begin with this step.                          *)
(***************************************************************************)
startedCall(o, api) ==
    LET routes == extractRoutesFromTree(o, routeTree, <<>>)
        unique == uniqueRoutesOf(routes)
    IN  [pc            |-> "awaiting",
         api           |-> api,
         routes        |-> routes,
         uniqueRoutes  |-> unique,
         staticEntries |-> [i \in 1..Len(unique) |->
                               createSitemapEntry(o, unique[i])],
         pending       |-> providerPending(o),
         settled       |-> settledAtInvoke(o),
         filtered      |-> <<>>,
         manual        |-> manualAfterInvoke(o),
         invocations   |-> IF "manualRoutes" \in DOMAIN o THEN 1 ELSE 0,
         \* startedAfter records whether a call had settled when this one began
         startedAfter  |-> \E d \in 1..MaxCalls :
                               calls[d].pc \in {"done", "rejected"},
         result        |-> <<>>,
         resultId      |-> 0,
         xml           |-> <<>>]

enterGeneration(c, api) ==
    /\ generator.status = "constructed"
    /\ c <= ncalls
    /\ api \in entryPoints
    /\ calls[c].pc = "idle"
    /\ calls' = [calls EXCEPT ![c] = startedCall(generator.options, api)]
    /\ UNCHANGED <<callerVars, generator, rendered, plugin, build>>

GenerateSitemapEntries(c) == enterGeneration(c, "generateSitemapEntries")

GenerateXmlSitemap(c) == enterGeneration(c, "generateXmlSitemap")

(***************************************************************************)
(* The promise the provider returned settles: it resolves with the entries *)
(* or rejects.  This is a step of the provider, not of the generator.      *)
(***************************************************************************)
ProviderSettles(c) ==
    /\ calls[c].pc = "awaiting"
    /\ calls[c].pending
    /\ ~calls[c].settled
    /\ calls' = [calls EXCEPT ![c].settled = TRUE]
    /\ UNCHANGED <<callerVars, generator, rendered, plugin, build>>

(***************************************************************************)
(* generateManualRoutes after its await (generator.ts:162-169): the        *)
(* provider's result is filtered and mapped, or the failure is caught.     *)
(***************************************************************************)
\* mutant: the continuation is attached to the fulfilment of the provider's
\* promise only, so a rejection leaves the call suspended
ResumeManualRoutesOnFulfilment(c) ==
    /\ calls[c].pc = "awaiting"
    /\ calls[c].pending
    /\ providerResultArrived(calls[c])
    /\ generator.options.manualRoutes.kind # "rejects"
    /\ calls' = [calls EXCEPT ![c] =
           [@ EXCEPT !.pending = FALSE,
                     !.filtered = filteredManualRoutes(generator.options),
                     !.manual = catchManualRoutes(
                                    tryManualRoutes(generator.options))]]
    /\ UNCHANGED <<callerVars, generator, rendered, plugin, build>>

ResumeManualRoutes(c) ==
    /\ calls[c].pc = "awaiting"
    /\ calls[c].pending
    /\ providerResultArrived(calls[c])
    /\ calls' = [calls EXCEPT ![c] =
           [@ EXCEPT !.pending = FALSE,
                     !.filtered = filteredManualRoutes(generator.options),
                     !.manual = catchManualRoutes(
                                    tryManualRoutes(generator.options))]]
    /\ UNCHANGED <<callerVars, generator, rendered, plugin, build>>

(***************************************************************************)
(* generateSitemapEntries after its await (generator.ts:148-150): the      *)
(* manual entries are in hand and the call returns, or rejects when        *)
(* generateManualRoutes threw.                                             *)
(***************************************************************************)
ResumeSitemapEntries(c) ==
    /\ calls[c].pc = "awaiting"
    /\ ~calls[c].pending
    /\ LET outcome == calls[c].manual
       IN  calls' = [calls EXCEPT ![c] =
               [@ EXCEPT !.pc = IF outcome.threw THEN "rejected"
                                ELSE IF calls[c].api = "generateXmlSitemap"
                                     THEN "rendering"
                                     ELSE "done",
                         !.result = IF outcome.threw THEN <<>>
                                    ELSE combineEntries(calls[c].staticEntries,
                                                        outcome.entries),
                         !.resultId = IF outcome.threw THEN 0 ELSE newArray]]
    /\ UNCHANGED <<callerVars, generator, rendered, plugin, build>>

(***************************************************************************)
(* generateXmlSitemap after its await (generator.ts:231-232): the entries  *)
(* are rendered and the call returns the document.                         *)
(***************************************************************************)
ResumeXmlSitemap(c) ==
    /\ calls[c].pc = "rendering"
    /\ calls' = [calls EXCEPT ![c] =
           [@ EXCEPT !.pc = "done",
                     !.xml = entriesToXml(generator.options, calls[c].result)]]
    /\ UNCHANGED <<callerVars, generator, rendered, plugin, build>>

(***************************************************************************)
(* entriesToXml(entries), called by the caller with entries of its own.    *)
(***************************************************************************)
EntriesToXml ==
    /\ generator.status = "constructed"
    /\ "entriesToXml" \in entryPoints
    /\ rendered = NotRendered
    /\ \E entries \in DirectEntryLists :
           rendered' = [status  |-> "returned",
                        entries |-> entries,
                        xml     |-> entriesToXml(generator.options, entries)]
    /\ UNCHANGED <<callerVars, generator, calls, plugin, build>>

(***************************************************************************)
(* sitemapPlugin(options) and createSitemapPlugin(baseUrl, options), called*)
(* by the caller with its sitemap options and the plugin's own options.    *)
(***************************************************************************)
SitemapPlugin ==
    /\ pluginArg.fn = "sitemapPlugin"
    /\ plugin = NoPlugin
    /\ plugin' = sitemapPlugin(optionsArg @@ pluginArg.own)
    /\ UNCHANGED <<callerVars, generator, calls, rendered, build>>

CreateSitemapPlugin ==
    /\ pluginArg.fn = "createSitemapPlugin"
    /\ plugin = NoPlugin
    /\ plugin' = createSitemapPlugin(optionsArg.baseUrl,
                     [f \in DOMAIN optionsArg \ {"baseUrl"} |-> optionsArg[f]]
                         @@ pluginArg.own)
    /\ UNCHANGED <<callerVars, generator, calls, rendered, build>>

(***************************************************************************)
(* buildEnd (index.ts:198-279).  The log is kept as the sequence of the    *)
(* messages' kinds.                                                        *)
(***************************************************************************)
logIf(cond, kind) == IF cond THEN <<kind>> ELSE <<>>

\* the catch block (index.ts:275-278): log the error and rethrow it
buildRejects(error, logged) ==
    build' = [build EXCEPT !.pc = "rejected",
                           !.error = error,
                           !.logged = logged \o <<"error">>]

\* index.ts:243-244: the generator is constructed inside the try block and
\* generateXmlSitemap is called and awaited
buildGenerates(logged) ==
    IF constructorRejects(plugin.sitemapOptions)
    THEN /\ generator' = [status |-> "threw", error |-> BaseUrlError]
         /\ buildRejects(BaseUrlError, logged)
         /\ UNCHANGED calls
    ELSE \E now \in Times :
           LET o == mergedOptions(plugin.sitemapOptions, now)
           IN  /\ generator' = [status |-> "constructed", options |-> o]
               /\ calls' = [calls EXCEPT
                               ![1] = startedCall(o, "generateXmlSitemap")]
               /\ build' = [build EXCEPT !.pc = "generating",
                                         !.logged = logged]

\* up to the first await: of importRouteTree, or of generateXmlSitemap
BuildEnd ==
    /\ plugin.status = "created"
    /\ build.pc = "idle"
    /\ IF skipsGeneration(plugin, environment)
       THEN /\ build' = [build EXCEPT
                            !.pc = "returned",
                            !.logged = logIf(plugin.verbose, "skipping")]
            /\ UNCHANGED <<generator, calls>>
       ELSE LET logged == logIf(plugin.verbose, "generating")
            IN  IF environment.provided
                THEN buildGenerates(logged)
                ELSE LET detecting == logged \o logIf(plugin.verbose, "detecting")
                     IN  /\ IF findRouteTreeFile(environment) = "null"
                            THEN buildRejects(RouteTreeNotFoundError, detecting)
                            ELSE build' = [build EXCEPT
                                     !.pc = "importing",
                                     !.logged = detecting
                                         \o logIf(plugin.verbose, "found")]
                         /\ UNCHANGED <<generator, calls>>
    /\ UNCHANGED <<callerVars, rendered, plugin>>

\* importRouteTree settles (index.ts:235): it throws, or yields the route
\* tree of the file
BuildEndImported ==
    /\ build.pc = "importing"
    /\ IF environment.routeTreeFile = "fails"
       THEN /\ buildRejects(ImportError, build.logged)
            /\ UNCHANGED <<generator, calls>>
       ELSE buildGenerates(build.logged)
    /\ UNCHANGED <<callerVars, rendered, plugin>>

\* generateXmlSitemap has returned (index.ts:244-260): the directory is
\* made when missing, the file is written, and a verbose plugin calls
\* generateSitemapEntries
BuildEndWrites ==
    /\ build.pc = "generating"
    /\ calls[1].pc = "done"
    /\ LET dir == dirOf(plugin.outputPath)
       IN  build' = [build EXCEPT
               !.pc = IF plugin.verbose THEN "reporting" ELSE "returned",
               !.madeDirs = IF dir \in environment.existingDirs
                            THEN {} ELSE {dir},
               !.written = <<[path    |-> plugin.outputPath,
                              content |-> calls[1].xml]>>]
    /\ calls' = IF plugin.verbose
                THEN [calls EXCEPT
                         ![2] = startedCall(generator.options,
                                            "generateSitemapEntries")]
                ELSE calls
    /\ UNCHANGED <<callerVars, generator, rendered, plugin>>

\* generateSitemapEntries has returned (index.ts:260-274): the count and
\* the first urls are logged
BuildEndReports ==
    /\ build.pc = "reporting"
    /\ calls[2].pc = "done"
    /\ build' = [build EXCEPT
           !.pc = "returned",
           !.logged = @ \o <<"generated">>
                        \o logIf(Len(calls[2].result) > 0, "urls")
                        \o logIf(Len(calls[2].result) > 5, "more")]
    /\ UNCHANGED <<callerVars, generator, calls, rendered, plugin>>

Next ==
    \/ Construct
    \/ \E c \in 1..MaxCalls : GenerateSitemapEntries(c)
    \/ \E c \in 1..MaxCalls : GenerateXmlSitemap(c)
    \/ \E c \in 1..MaxCalls : ResumeXmlSitemap(c)
    \/ EntriesToXml
    \/ \E c \in 1..MaxCalls : ProviderSettles(c)
    \/ \E c \in 1..MaxCalls : ResumeManualRoutes(c)
    \/ \E c \in 1..MaxCalls : ResumeSitemapEntries(c)
    \/ SitemapPlugin
    \/ CreateSitemapPlugin
    \/ BuildEnd
    \/ BuildEndImported
    \/ BuildEndWrites
    \/ BuildEndReports

Spec == Init /\ [][Next]_vars

(***************************************************************************)
(* The event loop runs a continuation once the promise it awaits has       *)
(* settled: the steps after an await are weakly fair.  The caller's steps  *)
(* and the settling of the provider's promise are not.                     *)
(***************************************************************************)
Continuations ==
    \A c \in 1..MaxCalls :
        /\ WF_vars(ResumeManualRoutes(c))
        /\ WF_vars(ResumeSitemapEntries(c))
        /\ WF_vars(ResumeXmlSitemap(c))

LiveSpec == Spec /\ Continuations

(***************************************************************************)
(* Vocabulary of the properties.                                           *)
(***************************************************************************)
Started(c) == calls[c].pc # "idle"

Done(c) == calls[c].pc = "done"

Settled(c) == calls[c].pc \in {"done", "rejected"}

pathsOf(routes) == [i \in 1..Len(routes) |-> routes[i].path]

urlsOf(entries) == [i \in 1..Len(entries) |-> entries[i].url]

\* empty or made of white space only
IsBlank(s) == \A i \in 1..Len(s) : s[i] \in WhiteSpace

BaseUrlUnusable(options) ==
    \/ options = UndefinedOptions
    \/ "baseUrl" \notin DOMAIN options
    \/ IsBlank(options.baseUrl)

(***************************************************************************)
(* C1.  Constructing the generator with absent options, or with a baseUrl  *)
(* that is missing, empty or made of white space only, raises 'baseUrl is  *)
(* required and cannot be empty' and yields no generator; with any other   *)
(* baseUrl construction succeeds.                                          *)
(***************************************************************************)
C1_ConstructorValidatesBaseUrl ==
    generator.status # "none" =>
        IF BaseUrlUnusable(optionsArg)
        THEN generator = [status |-> "threw", error |-> BaseUrlError]
        ELSE /\ generator.status = "constructed"
             /\ generator.options.baseUrl = optionsArg.baseUrl

\* a whitespace-only baseUrl was refused
C1_Witness ==
    /\ generator.status = "threw"
    /\ optionsArg # UndefinedOptions
    /\ "baseUrl" \in DOMAIN optionsArg
    /\ optionsArg.baseUrl = <<" ", "\t">>

(***************************************************************************)
(* C2.  When the manual-routes provider throws or its promise rejects, the *)
(* generation call still completes without raising, and its result is      *)
(* exactly the static entries the same tree and configuration produce with *)
(* no provider configured.                                                 *)
(***************************************************************************)
withoutProvider(o) == [f \in DOMAIN o \ {"manualRoutes"} |-> o[f]]

staticEntriesAlone(o, tree) ==
    LET plain  == withoutProvider(o)
        unique == uniqueRoutesOf(extractRoutesFromTree(plain, tree, <<>>))
    IN  [i \in 1..Len(unique) |-> createSitemapEntry(plain, unique[i])]

ProviderFails ==
    /\ generator.status = "constructed"
    /\ "manualRoutes" \in DOMAIN generator.options
    /\ generator.options.manualRoutes.kind \in {"throws", "rejects"}

C2_ProviderFailureRecovered ==
    \A c \in 1..MaxCalls :
        (Settled(c) /\ ProviderFails) =>
            /\ calls[c].pc = "done"
            /\ calls[c].result = staticEntriesAlone(generator.options, routeTree)

\* a call whose provider's promise rejected has returned its static entries
C2_Witness ==
    \E c \in 1..MaxCalls :
        /\ Done(c)
        /\ ProviderFails
        /\ generator.options.manualRoutes.kind = "rejects"
        /\ calls[c].manual.warned
        /\ Len(calls[c].result) = 3

(***************************************************************************)
(* C3.  No entry produced for a route-tree node has a path containing '$', *)
(* '[' or ']': neither a dynamic node's own segment nor one inherited from *)
(* a dynamic ancestor.  (Violated: a dynamic ancestor whose path starts    *)
(* with '/' hands its path down to its children.)                          *)
(***************************************************************************)
HasDynamicChar(s) == \E i \in 1..Len(s) : s[i] \in {"$", "[", "]"}

C3_NoDynamicSegmentEmitted ==
    \A c \in 1..MaxCalls :
        Started(c) =>
            /\ \A i \in 1..Len(calls[c].uniqueRoutes) :
                   ~HasDynamicChar(calls[c].uniqueRoutes[i].path)
            /\ \A i \in 1..Len(calls[c].staticEntries) :
                   ~HasDynamicChar(calls[c].staticEntries[i].url)

(***************************************************************************)
(* Positions in a route tree, for the properties about traversal order.  A *)
(* position is the sequence of child indices leading from the root to a    *)
(* node; null nodes and children that are no array hold no positions.      *)
(***************************************************************************)
RECURSIVE PositionsOf(_)
PositionsOf(route) ==
    IF route = NullRoute THEN {}
    ELSE { <<>> } \cup
         (IF hasChildArray(route)
          THEN UNION { { <<i>> \o p : p \in PositionsOf(route.children[i]) }
                       : i \in 1..Len(route.children) }
          ELSE {})

RECURSIVE nodeAt(_, _)
nodeAt(route, p) ==
    IF p = <<>> THEN route ELSE nodeAt(route.children[Head(p)], Tail(p))

parentOf(p) == SubSeq(p, 1, Len(p) - 1)

\* the full path of the node at position p: its segment joined to the full
\* path of its parent, the root's parent path being empty
RECURSIVE fullPathAt(_, _)
fullPathAt(route, p) ==
    buildFullPath(IF p = <<>> THEN <<>> ELSE fullPathAt(route, parentOf(p)),
                  pathOf(nodeAt(route, p)))

\* the node at p has a non-empty full path, is not dynamic, is not excluded
Emits(o, route, p) ==
    /\ fullPathAt(route, p) # <<>>
    /\ ~isDynamicRoute(pathOf(nodeAt(route, p)))
    /\ ~isExcludedRoute(o, fullPathAt(route, p))

EmittingPositions(o, route) ==
    { p \in PositionsOf(route) : Emits(o, route, p) }

\* the full path of every position of route, as a function of the position
fullPaths(route) == [p \in PositionsOf(route) |-> fullPathAt(route, p)]

\* EmittingPositions(o, route), given F = fullPaths(route)
EmittingAmong(o, route, F) ==
    { p \in DOMAIN F : /\ F[p] # <<>>
                       /\ ~isDynamicRoute(pathOf(nodeAt(route, p)))
                       /\ ~isExcludedRoute(o, F[p]) }

IsPrefix(p, q) == Len(p) <= Len(q) /\ SubSeq(q, 1, Len(p)) = p

\* p comes before q in depth-first pre-order: p is a proper ancestor of q,
\* or at the first index where they differ p takes the earlier sibling
PreOrderBefore(p, q) ==
    /\ p # q
    /\ \/ IsPrefix(p, q)
       \/ \E k \in 1..Len(p) :
              /\ k <= Len(q)
              /\ SubSeq(p, 1, k - 1) = SubSeq(q, 1, k - 1)
              /\ p[k] < q[k]

\* the 1-based rank of p among the emitting positions E in pre-order
PreOrderRank(E, p) == Cardinality({ q \in E : PreOrderBefore(q, p) }) + 1

\* the positions of E whose full path is path
OwnersIn(E, route, path) == { p \in E : fullPathAt(route, p) = path }

\* the emitting positions whose full path is path
OwnersOf(o, route, path) == OwnersIn(EmittingPositions(o, route), route, path)

\* the first of a non-empty set of positions in pre-order
FirstInPreOrder(P) ==
    CHOOSE p \in P : \A q \in P : q = p \/ PreOrderBefore(p, q)

yieldedBy(o) ==
    IF /\ "manualRoutes" \in DOMAIN o
       /\ o.manualRoutes.kind \in {"returns", "resolves"}
       /\ o.manualRoutes.entries # NotAnArray
    THEN o.manualRoutes.entries
    ELSE <<>>

\* the non-excluded ones, in the provider's order
keptManual(o) ==
    SelectSeq(yieldedBy(o), LAMBDA m : ~isExcludedRoute(o, m.location))

\* result is static followed by one entry per element of kept, in order
StaticThenManual(result, static, kept, o) ==
    /\ Len(result) = Len(static) + Len(kept)
    /\ SubSeq(result, 1, Len(static)) = static
    /\ \A i \in 1..Len(kept) :
           result[Len(static) + i].url = buildFullUrl(o, kept[i].location)

\* C5 as worded: every non-excluded manual entry follows the static entries
\* (violated when the conversion of a manual entry raises)
C5_AllManualEntriesFollowStatic ==
    \A c \in 1..MaxCalls :
        Done(c) =>
            /\ calls[c].staticEntries
                   = staticEntriesAlone(generator.options, routeTree)
            /\ StaticThenManual(calls[c].result, calls[c].staticEntries,
                                keptManual(generator.options), generator.options)

\* a non-excluded manual entry holds a Date with no ISO representation
ConversionRaises(o) ==
    \E i \in 1..Len(keptManual(o)) :
        /\ "lastMod" \in DOMAIN keptManual(o)[i]
        /\ keptManual(o)[i].lastMod.type = "Date"
        /\ ~keptManual(o)[i].lastMod.valid

\* C5, amended: the statement holds unless the conversion of some
\* non-excluded manual entry raises (an invalid Date as lastMod); then the
\* result is the static entries alone.
C5_ManualEntriesFollowStatic ==
    \A c \in 1..MaxCalls :
        Done(c) =>
            /\ calls[c].staticEntries
                   = staticEntriesAlone(generator.options, routeTree)
            /\ IF ConversionRaises(generator.options)
               THEN calls[c].result = calls[c].staticEntries
               ELSE StaticThenManual(calls[c].result, calls[c].staticEntries,
                                     keptManual(generator.options),
                                     generator.options)

\* the provider yielded '/a', which the tree also holds: both entries are
\* in the result, the static one first
C5_Witness ==
    \E c \in 1..MaxCalls :
        /\ Done(c)
        /\ Len(keptManual(generator.options)) >= 2
        /\ ~ConversionRaises(generator.options)
        /\ \E i \in 1..Len(calls[c].staticEntries) :
               \E j \in (Len(calls[c].staticEntries) + 1)..Len(calls[c].result) :
                   calls[c].result[i].url = calls[c].result[j].url
        /\ \E j, k \in (Len(calls[c].staticEntries) + 1)..Len(calls[c].result) :
               j < k /\ calls[c].result[j].url = calls[c].result[k].url

(***************************************************************************)
(* C6.  De-duplication of the static routes: for every path among the      *)
(* flattened descriptors exactly one descriptor with that path is kept,    *)
(* namely the first in traversal order, and the kept descriptors stand in  *)
(* the order they had in the flattened list.                               *)
(***************************************************************************)
\* the least index of r holding path
FirstPosition(r, path) ==
    CHOOSE i \in 1..Len(r) :
        r[i].path = path /\ \A j \in 1..Len(r) : r[j].path = path => i <= j

C6_FirstOccurrenceKept ==
    \A c \in 1..MaxCalls :
        Started(c) =>
            LET r == calls[c].routes
                u == calls[c].uniqueRoutes
            IN  /\ \A i \in 1..Len(r) :
                       Cardinality({ k \in 1..Len(u) : u[k].path = r[i].path }) = 1
                /\ \A k \in 1..Len(u) :
                       /\ \E i \in 1..Len(r) : r[i].path = u[k].path
                       /\ u[k] = r[FirstPosition(r, u[k].path)]
                /\ \A k, l \in 1..Len(u) :
                       k < l => FirstPosition(r, u[k].path)
                                    < FirstPosition(r, u[l].path)

\* '/', then 'a' below it, then '/' again below that: the second '/' is dropped
C6_Witness ==
    \E c \in 1..MaxCalls :
        /\ Started(c)
        /\ pathsOf(calls[c].routes) = << <<"/">>, <<"/", "a">>, <<"/">> >>
        /\ pathsOf(calls[c].uniqueRoutes) = << <<"/">>, <<"/", "a">> >>

(***************************************************************************)
(* C7.  An exclude pattern P + '/*', P holding no wildcard, excludes the   *)
(* path P and every path that starts with P + '/', and does not exclude a  *)
(* path that has P as a prefix with no '/' following.  So no static        *)
(* descriptor and no manual entry lies under P, and a node whose path      *)
(* merely starts with P is emitted unless another pattern excludes it.     *)
(***************************************************************************)
HasWildcard(s) == \E i \in 1..Len(s) : s[i] \in {"*", "?"}

\* x is P + '/*' with no wildcard in P
IsSubtreePattern(x) ==
    /\ Len(x) >= 2
    /\ x[Len(x) - 1] = "/"
    /\ x[Len(x)] = "*"
    /\ ~HasWildcard(SubSeq(x, 1, Len(x) - 2))

\* path is P, or starts with P + '/'
Under(P, path) ==
    \/ path = P
    \/ /\ Len(path) > Len(P)
       /\ SubSeq(path, 1, Len(P)) = P
       /\ path[Len(P) + 1] = "/"

\* path starts with P and goes on with a character other than '/'
MerelyPrefixed(P, path) ==
    /\ Len(path) > Len(P)
    /\ SubSeq(path, 1, Len(P)) = P
    /\ path[Len(P) + 1] # "/"

\* the paths the run puts to the exclusion test: the full paths of the
\* tree's nodes and the locations the provider yields
CandidatePaths(o, route) ==
    { fullPathAt(route, p) : p \in PositionsOf(route) }
        \cup { yieldedBy(o)[i].location : i \in 1..Len(yieldedBy(o)) }

Resolved(o, path, f, default) ==
    IF path \in DOMAIN o.routeOptions /\ f \in DOMAIN o.routeOptions[path]
    THEN o.routeOptions[path][f]
    ELSE default

C8_RouteOptionsOverrideDefaults ==
    \A c \in 1..MaxCalls :
        Started(c) =>
            LET o == generator.options
                u == calls[c].uniqueRoutes
                e == calls[c].staticEntries
            IN  /\ Len(e) = Len(u)
                /\ \A i \in 1..Len(u) :
                       /\ e[i].priority
                              = Resolved(o, u[i].path, "priority", o.defaultPriority)
                       /\ e[i].changefreq
                              = Resolved(o, u[i].path, "changefreq",
                                         o.defaultChangefreq)
                       /\ e[i].lastmod
                              = Resolved(o, u[i].path, "lastmod", o.lastmod)

(***************************************************************************)
(* C9.  For a manual entry, priority, lastmod and changefreq are the       *)
(* entry's own priority (0 included), lastMod (a Date as its ISO string)   *)
(* and changeFrequency when it supplies them, and the configuration        *)
(* default otherwise; routeOptions plays no part, even when it has a key   *)
(* equal to the entry's location.                                          *)
(***************************************************************************)
\* field f of the manual entry m when supplied, else the default
Own(m, f, default) == IF f \in DOMAIN m THEN m[f] ELSE default

OwnLastmod(m, default) ==
    IF "lastMod" \notin DOMAIN m THEN default
    ELSE IF m.lastMod.type = "Date" THEN toISOString(m.lastMod.time)
    ELSE m.lastMod.value

C9_ManualEntryOwnFields ==
    \A c \in 1..MaxCalls :
        (Done(c) /\ ~ConversionRaises(generator.options)) =>
            LET o == generator.options
                k == keptManual(o)
                n == Len(calls[c].staticEntries)
                r == calls[c].result
            IN  /\ Len(r) = n + Len(k)
                /\ \A i \in 1..Len(k) :
                       /\ r[n + i].priority
                              = Own(k[i], "priority", o.defaultPriority)
                       /\ r[n + i].changefreq
                              = Own(k[i], "changeFrequency", o.defaultChangefreq)
                       /\ r[n + i].lastmod = OwnLastmod(k[i], o.lastmod)

\* routeOptions gives '/a' priority 1.0 and '/m' a lastmod; the manual
\* entry '/a' came out with its own priority 0 and the manual entry '/m'
\* with its own Date
C9_Witness ==
    \E c \in 1..MaxCalls :
        /\ Done(c)
        /\ <<"/", "a">> \in DOMAIN generator.options.routeOptions
        /\ generator.options.routeOptions[<<"/", "a">>].priority = 1
        /\ LET n == Len(calls[c].staticEntries)
               r == calls[c].result
           IN  /\ Len(r) = n + 2
               /\ r[n + 1].url = <<"h", "/", "a">>
               /\ r[n + 1].priority = 0
               /\ r[n + 1].lastmod = generator.options.lastmod
               /\ r[n + 2].url = <<"h", "/", "m">>
               /\ r[n + 2].lastmod = toISOString(45296789)
               /\ r[n + 2].priority = generator.options.defaultPriority

(***************************************************************************)
(* C10.  Every entry's url is B followed by P', where B is baseUrl less    *)
(* one trailing '/' if it has one, and P' is the path or manual location   *)
(* with one '/' appended exactly when trailingSlash is on and the path     *)
(* does not end with '/'.  Hence every url starts with B.                  *)
(***************************************************************************)
LastIsSlash(s) == s # <<>> /\ s[Len(s)] = "/"

LessOneSlash(s) == IF LastIsSlash(s) THEN SubSeq(s, 1, Len(s) - 1) ELSE s

Slashed(o, path) ==
    IF o.trailingSlash /\ ~LastIsSlash(path) THEN path \o <<"/">> ELSE path

ExpectedUrl(o, path) == LessOneSlash(o.baseUrl) \o Slashed(o, path)

C10_UrlIsBasePlusPath ==
    \A c \in 1..MaxCalls :
        Started(c) =>
            LET o == generator.options
                u == calls[c].uniqueRoutes
                e == calls[c].staticEntries
                k == keptManual(o)
                r == calls[c].result
            IN  /\ Len(e) = Len(u)
                /\ \A i \in 1..Len(u) : e[i].url = ExpectedUrl(o, u[i].path)
                /\ (Done(c) /\ ~ConversionRaises(o)) =>
                       /\ Len(r) = Len(e) + Len(k)
                       /\ \A i \in 1..Len(k) :
                              r[Len(e) + i].url = ExpectedUrl(o, k[i].location)
                /\ \A i \in 1..Len(r) :
                       SubSeq(r[i].url, 1, Len(LessOneSlash(o.baseUrl)))
                           = LessOneSlash(o.baseUrl)

\* baseUrl 'h//' with trailingSlash on: the entries are 'h//', 'h//a/', 'h//ab/'
C10_Witness ==
    \E c \in 1..MaxCalls :
        /\ Done(c)
        /\ generator.options.baseUrl = <<"h", "/", "/">>
        /\ generator.options.trailingSlash
        /\ urlsOf(calls[c].result)
               = << <<"h", "/", "/">>,
                    <<"h", "/", "/", "a", "/">>,
                    <<"h", "/", "/", "a", "b", "/">> >>

(***************************************************************************)
(* C11.  With a manual-routes provider configured, a generation call       *)
(* invokes it exactly once, and the call delivers no result before the     *)
(* provider's result has settled; with no provider nothing is invoked and  *)
(* the manual set is empty.                                                *)
(***************************************************************************)
C11_ProviderInvokedOnceAndAwaited ==
    \A c \in 1..MaxCalls :
        /\ ~Started(c) => calls[c].invocations = 0
        /\ Started(c) =>
               IF "manualRoutes" \in DOMAIN generator.options
               THEN /\ calls[c].invocations = 1
                    /\ Settled(c) => calls[c].settled
                    /\ ~calls[c].settled => calls[c].result = <<>>
               ELSE /\ calls[c].invocations = 0
                    /\ ~calls[c].settled
                    /\ calls[c].manual = ManualOk(<<>>)
                    /\ Done(c) => calls[c].result = calls[c].staticEntries

\* a call whose provider returned a promise has completed, after the promise
\* resolved, with the one invocation and the provider's entries
C11_Witness ==
    \E c \in 1..MaxCalls :
        /\ Done(c)
        /\ "manualRoutes" \in DOMAIN generator.options
        /\ generator.options.manualRoutes.kind = "resolves"
        /\ calls[c].invocations = 1
        /\ calls[c].settled
        /\ Len(calls[c].manual.entries) = 2

(***************************************************************************)
(* Vocabulary of the properties about the rendered document.               *)
(***************************************************************************)
\* the documents the state holds, each with the entries it was rendered from
RenderedDocs ==
    { [entries |-> calls[c].result, xml |-> calls[c].xml]
      : c \in { k \in 1..MaxCalls :
                  Done(k) /\ calls[k].api = "generateXmlSitemap" } }
        \cup (IF rendered = NotRendered THEN {}
              ELSE { [entries |-> rendered.entries, xml |-> rendered.xml] })

\* t occurs in d at position i
OccursAt(d, t, i) ==
    /\ i >= 1
    /\ i + Len(t) - 1 <= Len(d)
    /\ d[i] = t[1]
    /\ SubSeq(d, i, i + Len(t) - 1) = t

\* the positions at which t occurs in d
Occ(d, t) == { i \in 1..(Len(d) - Len(t) + 1) : OccursAt(d, t, i) }

\* the positions of d at which a tag begins
TagStarts(d) == { i \in 1..Len(d) : d[i] = "<" }

\* the positions at which the tag t occurs in d, T being TagStarts(d)
TagOcc(d, T, t) == { i \in T : OccursAt(d, t, i) }

\* the k-th smallest element of a set of numbers
Kth(S, k) == CHOOSE x \in S : Cardinality({ y \in S : y < x }) = k - 1

\* what one character of a url reads as inside <loc>
EscapedChar(ch) ==
    CASE ch = "&" -> <<"&", "a", "m", "p", ";">>
      [] ch = "<" -> <<"&", "l", "t", ";">>
      [] ch = ">" -> <<"&", "g", "t", ";">>
      [] ch = "\"" -> <<"&", "q", "u", "o", "t", ";">>
      [] ch = "'" -> <<"&", "a", "p", "o", "s", ";">>
      [] OTHER -> <<ch>>

RECURSIVE EscapedText(_)
EscapedText(t) ==
    IF t = <<>> THEN <<>> ELSE EscapedChar(Head(t)) \o EscapedText(Tail(t))

(***************************************************************************)
(* C12.  A rendered document begins with the XML declaration and the       *)
(* urlset root element with the sitemap namespace, ends with </urlset>,    *)
(* and holds exactly one <url>...</url> block per entry, in entry order;   *)
(* in each block the children stand in the order loc, lastmod, changefreq, *)
(* priority, loc always and each of the others exactly when the entry has  *)
(* the field.                                                              *)
(***************************************************************************)
\* the occurrences of the tag t among the tag starts B
Within(d, B, t) == { p \in B : OccursAt(d, t, p) }

\* the element named name occurs n times among B, opened then closed
ElementCount(d, B, name, n) ==
    /\ Cardinality(Within(d, B, openTag(name))) = n
    /\ Cardinality(Within(d, B, closeTag(name))) = n
    /\ \A p \in Within(d, B, openTag(name)) :
           \A q \in Within(d, B, closeTag(name)) : p < q

\* every element named first among B ends before one named next begins
InOrder(d, B, first, next) ==
    \A p \in Within(d, B, closeTag(first)) :
        \A q \in Within(d, B, openTag(next)) : p < q

\* the text of the one element named name among B
TextOf(d, B, name) ==
    LET p == CHOOSE x \in Within(d, B, openTag(name)) : TRUE
        q == CHOOSE x \in Within(d, B, closeTag(name)) : TRUE
    IN  SubSeq(d, p + Len(openTag(name)), q - 1)

\* the block of d whose tags begin at the positions B is that of entry
BlockOf(d, B, entry) ==
    /\ ElementCount(d, B, LocName, 1)
    /\ ElementCount(d, B, LastmodName,
                    IF "lastmod" \in DOMAIN entry THEN 1 ELSE 0)
    /\ ElementCount(d, B, ChangefreqName,
                    IF "changefreq" \in DOMAIN entry THEN 1 ELSE 0)
    /\ ElementCount(d, B, PriorityName,
                    IF "priority" \in DOMAIN entry THEN 1 ELSE 0)
    /\ InOrder(d, B, LocName, LastmodName)
    /\ InOrder(d, B, LocName, ChangefreqName)
    /\ InOrder(d, B, LocName, PriorityName)
    /\ InOrder(d, B, LastmodName, ChangefreqName)
    /\ InOrder(d, B, LastmodName, PriorityName)
    /\ InOrder(d, B, ChangefreqName, PriorityName)
    /\ TextOf(d, B, LocName) = EscapedText(entry.url)
    /\ "lastmod" \in DOMAIN entry
           => TextOf(d, B, LastmodName) = entry.lastmod
    /\ "changefreq" \in DOMAIN entry
           => TextOf(d, B, ChangefreqName) = entry.changefreq
    /\ "priority" \in DOMAIN entry
           => LET t == TextOf(d, B, PriorityName)
              IN  /\ Len(t) = 3
                  /\ t[2] = "."
                  /\ \E m, n \in 0..9 :
                         /\ t[1] = Digits[m + 1]
                         /\ t[3] = Digits[n + 1]
                         /\ 10 * m + n = entry.priority

\* the tag starts of T strictly between the i-th <url> and the i-th </url>
BlockTags(d, T, i) ==
    LET a == Kth(TagOcc(d, T, UrlOpen), i)
        b == Kth(TagOcc(d, T, UrlClose), i)
    IN  { p \in T : a < p /\ p < b }

DocumentOf(d, entries) ==
    LET T == TagStarts(d)
        U == TagOcc(d, T, UrlOpen)
        V == TagOcc(d, T, UrlClose)
        R == TagOcc(d, T, <<"<", "u", "r", "l", "s", "e", "t">>)
    IN  /\ TagOcc(d, T, <<"<", "?", "x", "m", "l">>) = { 1 }
        /\ SubSeq(d, 1, Len(XmlDeclaration)) = XmlDeclaration
        /\ Cardinality(R) = 1
        /\ R \subseteq { Len(XmlDeclaration) + 1, Len(XmlDeclaration) + 2 }
        /\ \A r \in R : SubSeq(d, r, r + Len(UrlsetOpen) - 1) = UrlsetOpen
        /\ TagOcc(d, T, UrlsetClose) = { Len(d) - Len(UrlsetClose) + 1 }
        /\ Cardinality(U) = Len(entries)
        /\ Cardinality(V) = Len(entries)
        /\ \A i \in 1..Len(entries) :
               /\ Kth(U, i) < Kth(V, i)
               /\ i < Len(entries) => Kth(V, i) < Kth(U, i + 1)
               /\ BlockOf(d, BlockTags(d, T, i), entries[i])

C12_DocumentStructure ==
    \A doc \in RenderedDocs : DocumentOf(doc.xml, doc.entries)

\* entriesToXml has rendered an entry with a url alone and an entry with
\* all four fields
C12_Witness ==
    /\ rendered # NotRendered
    /\ Len(rendered.entries) = 2
    /\ DOMAIN rendered.entries[1] = {"url"}
    /\ DOMAIN rendered.entries[2] = {"url", "lastmod", "changefreq", "priority"}
    /\ Len(rendered.xml) > 0

(***************************************************************************)
(* C13.  The text of every <loc> is the entry's url with each of & < > " ' *)
(* replaced by its entity, a '&' that a replacement brought in being left  *)
(* alone; the text holds no raw '<', '>', '"' or apostrophe, and every '&' *)
(* in it begins one of the five entities.                                  *)
(***************************************************************************)
Entities ==
    { <<"&", "a", "m", "p", ";">>, <<"&", "l", "t", ";">>, <<"&", "g", "t", ";">>,
      <<"&", "q", "u", "o", "t", ";">>, <<"&", "a", "p", "o", "s", ";">> }

\* the text of the <loc> of the i-th url block of d
LocText(d, i) == TextOf(d, BlockTags(d, TagStarts(d), i), LocName)

C13_LocIsEscapedUrl ==
    \A doc \in RenderedDocs :
        \A i \in 1..Len(doc.entries) :
            LET t == LocText(doc.xml, i)
            IN  /\ t = EscapedText(doc.entries[i].url)
                /\ \A k \in 1..Len(t) :
                       /\ t[k] \notin {"<", ">", "\"", "'"}
                       /\ t[k] = "&" =>
                              \E ent \in Entities :
                                  /\ k + Len(ent) - 1 <= Len(t)
                                  /\ SubSeq(t, k, k + Len(ent) - 1) = ent

\* generateXmlSitemap has rendered the manual location /?<&>"'&lt; as
\* /?&lt;&amp;&gt;&quot;&apos;&amp;lt;
C13_Witness ==
    \E c \in 1..MaxCalls :
        /\ Done(c)
        /\ calls[c].api = "generateXmlSitemap"
        /\ Len(calls[c].result) = 4
        /\ calls[c].result[4].url = <<"h">> \o SpecialLocation
        /\ LocText(calls[c].xml, 4)
               = <<"h", "/", "?", "&", "l", "t", ";", "&", "a", "m", "p", ";",
                   "&", "g", "t", ";", "&", "q", "u", "o", "t", ";",
                   "&", "a", "p", "o", "s", ";", "&", "a", "m", "p", ";",
                   "l", "t", ";">>

(***************************************************************************)
(* C14.  For the same entries the compact document (prettyPrint false) is  *)
(* one line with no indentation, and it is the pretty document             *)
(* (prettyPrint true) with the newlines and the indentation removed: two   *)
(* spaces per nesting level before each tag of a url block.                *)
(***************************************************************************)
\* d[k] is a space and only spaces separate it from the newline before it
RECURSIVE BeginsLine(_, _)
BeginsLine(d, k) ==
    /\ k > 1
    /\ d[k] = " "
    /\ \/ d[k - 1] = "\n"
       \/ BeginsLine(d, k - 1)

IsLayout(d, k) == d[k] = "\n" \/ BeginsLine(d, k)

\* d[a..b] without its newlines and without the spaces that begin a line
RECURSIVE StripRange(_, _, _)
StripRange(d, a, b) ==
    IF a > b THEN <<>>
    ELSE IF a = b THEN (IF IsLayout(d, a) THEN <<>> ELSE <<d[a]>>)
    ELSE LET m == (a + b) \div 2
         IN  StripRange(d, a, m) \o StripRange(d, m + 1, b)

StripLayout(d) == StripRange(d, 1, Len(d))

\* every occurrence of t in d begins a line, after exactly n spaces
IndentedBy(d, T, t, n) ==
    \A p \in TagOcc(d, T, t) :
        /\ p > n + 1
        /\ d[p - n - 1] = "\n"
        /\ \A k \in (p - n)..(p - 1) : d[k] = " "

PrettyOf(o, entries) == entriesToXml([o EXCEPT !.prettyPrint = TRUE], entries)

CompactOf(o, entries) == entriesToXml([o EXCEPT !.prettyPrint = FALSE], entries)

\* the pretty and the compact document of the entries of doc, one of them
\* doc itself
PrettyOfDoc(o, doc) ==
    IF o.prettyPrint THEN doc.xml ELSE PrettyOf(o, doc.entries)

CompactOfDoc(o, doc) ==
    IF o.prettyPrint THEN CompactOf(o, doc.entries) ELSE doc.xml

C14_CompactIsPrettyWithoutLayout ==
    \A doc \in RenderedDocs :
        LET pretty  == PrettyOfDoc(generator.options, doc)
            compact == CompactOfDoc(generator.options, doc)
            T       == TagStarts(pretty)
            C       == TagStarts(compact)
        IN  /\ \A k \in 1..Len(compact) : compact[k] # "\n"
            /\ \A t \in { UrlOpen, UrlClose, openTag(LocName),
                          openTag(LastmodName), openTag(ChangefreqName),
                          openTag(PriorityName), UrlsetClose } :
                   \A p \in TagOcc(compact, C, t) : compact[p - 1] = ">"
            /\ StripLayout(pretty) = compact
            /\ IndentedBy(pretty, T, UrlOpen, 2)
            /\ IndentedBy(pretty, T, UrlClose, 2)
            /\ IndentedBy(pretty, T, openTag(LocName), 4)
            /\ IndentedBy(pretty, T, openTag(LastmodName), 4)
            /\ IndentedBy(pretty, T, openTag(ChangefreqName), 4)
            /\ IndentedBy(pretty, T, openTag(PriorityName), 4)
            /\ IndentedBy(pretty, T, UrlsetClose, 0)

\* a generator with prettyPrint false has rendered two entries on one line;
\* the pretty document of the same entries has ten newlines or more
C14_Witness ==
    /\ rendered # NotRendered
    /\ ~generator.options.prettyPrint
    /\ Len(rendered.entries) = 2
    /\ Occ(rendered.xml, <<"\n">>) = {}
    /\ Cardinality(Occ(PrettyOf(generator.options, rendered.entries), <<"\n">>))
           >= 10
    /\ rendered.xml # PrettyOf(generator.options, rendered.entries)

(***************************************************************************)
(* C15.  Idempotence.  With a fixed lastmod, two generation calls with the *)
(* same tree and configuration return the same output: the same entries,   *)
(* and the same document when both render one.  A call that begins after   *)
(* another has returned finds nothing left behind by it.  The configuration*)
(* a fresh generator holds does not depend on the time of construction, so *)
(* the same holds for generateSitemap and generateSitemapEntries of        *)
(* sitemap-generator.ts, which construct a generator on each call.         *)
(***************************************************************************)
FixedLastmod == optionsArg # UndefinedOptions /\ "lastmod" \in DOMAIN optionsArg

C15_RepeatedCallsAgree ==
    FixedLastmod /\ generator.status = "constructed" =>
        /\ \A now \in Times :
               mergedOptions(optionsArg, now) = generator.options
        /\ \A c1, c2 \in 1..MaxCalls :
               Settled(c1) /\ Settled(c2) =>
                   /\ Done(c1) <=> Done(c2)
                   /\ calls[c1].result = calls[c2].result
                   /\ calls[c1].api = calls[c2].api =>
                          calls[c1].xml = calls[c2].xml

\* a second call, begun after the first had returned its document, has
\* returned one too; the provider was invoked by each
C15_Witness ==
    /\ FixedLastmod
    /\ "manualRoutes" \in DOMAIN optionsArg
    /\ Done(1) /\ Done(2)
    /\ ~calls[1].startedAfter
    /\ calls[2].startedAfter
    /\ \A c \in 3..MaxCalls : ~Started(c)
    /\ calls[1].api = "generateXmlSitemap"
    /\ calls[2].api = "generateXmlSitemap"
    /\ Len(calls[2].result) >= 2
    /\ calls[2].xml # <<>>

(***************************************************************************)
(* C16.  Generation calls started concurrently on one generator, suspended *)
(* at the await of the provider and resumed in any order, each return what *)
(* the call returns when run alone: the static entries of the tree, then   *)
(* the entries converted from what the provider yields, and the document   *)
(* rendered from them.  While other calls run, a call's static entries stay*)
(* as computed and the generator's configuration stays as constructed.     *)
(***************************************************************************)
\* what generateManualRoutes returns to a call run alone
manualEntriesAlone(o) ==
    IF ConversionRaises(o) THEN <<>>
    ELSE [i \in 1..Len(keptManual(o)) |->
             createManualSitemapEntry(o, keptManual(o)[i])]

entriesAlone(o, tree) == staticEntriesAlone(o, tree) \o manualEntriesAlone(o)

C16_ConcurrentCallsIndependent ==
    generator.status = "constructed" =>
        /\ \E now \in Times :
               generator.options = mergedOptions(optionsArg, now)
        /\ \A c \in 1..MaxCalls :
               /\ Started(c) =>
                      calls[c].staticEntries
                          = staticEntriesAlone(generator.options, routeTree)
               /\ Settled(c) =>
                      /\ Done(c)
                      /\ calls[c].result
                             = entriesAlone(generator.options, routeTree)
                      /\ calls[c].api = "generateXmlSitemap" =>
                             calls[c].xml
                                 = entriesToXml(generator.options,
                                       entriesAlone(generator.options, routeTree))

\* two calls, each begun before the other had settled and each suspended on
\* a promise of the provider, have both returned static and manual entries
C16_Witness ==
    /\ Done(1) /\ Done(2)
    /\ ~calls[1].startedAfter
    /\ ~calls[2].startedAfter
    /\ "manualRoutes" \in DOMAIN generator.options
    /\ generator.options.manualRoutes.kind = "resolves"
    /\ calls[1].manual.entries # <<>>
    /\ calls[1].staticEntries # <<>>
    /\ calls[1].api # calls[2].api

(***************************************************************************)
(* C17.  Creating the plugin, with sitemapPlugin or createSitemapPlugin,   *)
(* never raises, whether baseUrl is usable or missing, and validates       *)
(* nothing: no generator exists until buildEnd runs.  When buildEnd reaches*)
(* the construction of the generator with a missing, empty or blank        *)
(* baseUrl, the constructor's error is logged and rethrown to the caller   *)
(* of buildEnd, and that run writes no file and makes no directory.        *)
(***************************************************************************)
\* buildEnd got past the skip test and holds a route tree
ReachedConstruction ==
    /\ build.pc \notin {"idle", "importing"}
    /\ ~skipsGeneration(plugin, environment)
    /\ environment.provided \/ environment.routeTreeFile = "loads"

C17_PluginDefersValidation ==
    /\ plugin # NoPlugin => plugin.status = "created"
    /\ pluginArg # NoPluginArg /\ build.pc = "idle" =>
           generator.status = "none"
    /\ plugin # NoPlugin /\ ReachedConstruction /\ BaseUrlUnusable(optionsArg) =>
           /\ build.pc = "rejected"
           /\ build.error = BaseUrlError
    /\ build.error = BaseUrlError =>
           /\ BaseUrlUnusable(optionsArg)
           /\ build.pc = "rejected"
           /\ build.logged # <<>>
           /\ build.logged[Len(build.logged)] = "error"
           /\ build.written = <<>>
           /\ build.madeDirs = {}
           /\ \A c \in 1..MaxCalls : ~Started(c)
    /\ build.written # <<>> => ~BaseUrlUnusable(optionsArg)

\* a plugin created from options without baseUrl exists, and its buildEnd,
\* given a route tree, has rejected with the constructor's error
C17_Witness ==
    /\ pluginArg.fn = "sitemapPlugin"
    /\ optionsArg # UndefinedOptions
    /\ "baseUrl" \notin DOMAIN optionsArg
    /\ plugin.status = "created"
    /\ environment.provided
    /\ build.pc = "rejected"
    /\ build.error = BaseUrlError
    /\ build.written = <<>>

(***************************************************************************)
(* C18.  The fullPath of a non-dynamic node follows four rules: a path     *)
(* that starts with '/' is used as it is, whatever the parent path; an     *)
(* empty path or 'index' gives the parent path, or '/' when that is empty; *)
(* '__root__' gives the empty fullPath, so the node is not emitted and its *)
(* children are computed from an empty parent path; any other segment      *)
(* gives parentPath + '/' + segment with each run of slashes made one.     *)
(***************************************************************************)
\* s with every run of consecutive slashes reduced to one slash
RECURSIVE OneSlashPerRun(_)
OneSlashPerRun(s) ==
    IF Len(s) < 2 THEN s
    ELSE IF s[Len(s)] = "/" /\ s[Len(s) - 1] = "/"
         THEN OneSlashPerRun(SubSeq(s, 1, Len(s) - 1))
         ELSE OneSlashPerRun(SubSeq(s, 1, Len(s) - 1)) \o <<s[Len(s)]>>

RuledFullPath(parentPath, segment) ==
    CASE segment # <<>> /\ segment[1] = "/"     -> segment
      [] segment = <<>> \/ segment = IndexName   ->
             (IF parentPath = <<>> THEN <<"/">> ELSE parentPath)
      [] segment = RootName                      -> <<>>
      [] OTHER -> OneSlashPerRun(parentPath \o <<"/">> \o segment)

NonDynamic(segment) == ~HasDynamicChar(segment)

parentPathAt(route, p) ==
    IF p = <<>> THEN <<>> ELSE fullPathAt(route, parentOf(p))

C18_FullPathRules ==
    \A c \in 1..MaxCalls :
        Started(c) =>
            LET o == generator.options
                F == fullPaths(routeTree)
                E == EmittingAmong(o, routeTree, F)
                P == DOMAIN F
                above(p) == IF p = <<>> THEN <<>> ELSE F[parentOf(p)]
            IN  \A p \in P :
                    LET segment == pathOf(nodeAt(routeTree, p))
                        ruled   == RuledFullPath(above(p), segment)
                    IN  NonDynamic(segment) =>
                            /\ F[p] = ruled
                            /\ p \in E =>
                                   calls[c].routes[PreOrderRank(E, p)].path = ruled
                            /\ segment = RootName =>
                                   /\ p \notin E
                                   /\ \A q \in P :
                                          parentOf(q) = p /\ q # p =>
                                              above(q) = <<>>

\* a plain segment under a parent whose path ends in a slash was emitted
\* with one slash between them
C18_Witness ==
    /\ Started(1)
    /\ \E p \in PositionsOf(routeTree) :
           /\ p # <<>>
           /\ pathOf(nodeAt(routeTree, p)) = <<"a">>
           /\ parentPathAt(routeTree, p) = <<"/", "a", "/">>
           /\ p \in EmittingPositions(generator.options, routeTree)
    /\ \E i \in 1..Len(calls[1].routes) :
           calls[1].routes[i].path = <<"/", "a", "/", "a">>

(***************************************************************************)
(* C19.  Exclusion is per node, not per subtree.  A node whose fullPath    *)
(* matches an exclude pattern is omitted; its descendants are still walked,*)
(* and each is emitted unless its own fullPath matches a pattern (or it is *)
(* dynamic or has an empty fullPath).                                      *)
(***************************************************************************)
\* some proper ancestor of the node at p has an excluded fullPath
UnderExcluded(o, route, p) ==
    \E k \in 0..(Len(p) - 1) :
        LET q == SubSeq(p, 1, k)
        IN  /\ fullPathAt(route, q) # <<>>
            /\ isExcludedRoute(o, fullPathAt(route, q))

C19_ExclusionPerNode ==
    \A c \in 1..MaxCalls :
        Started(c) =>
            LET o == generator.options
                F == fullPaths(routeTree)
                E == EmittingAmong(o, routeTree, F)
                r == calls[c].routes
            IN  /\ \A i \in 1..Len(r) : ~isExcludedRoute(o, r[i].path)
                /\ \A p \in DOMAIN F :
                       LET full == F[p]
                       IN  /\ full # <<>>
                           /\ NonDynamic(pathOf(nodeAt(routeTree, p)))
                           /\ ~isExcludedRoute(o, full)
                           => /\ p \in E
                              /\ PreOrderRank(E, p) <= Len(r)
                              /\ r[PreOrderRank(E, p)].path = full
                              /\ \E i \in 1..Len(calls[c].staticEntries) :
                                     calls[c].staticEntries[i].url
                                         = buildFullUrl(o, full)

\* with excludeRoutes ['/a'] the node '/a' is omitted and its child '/a/a'
\* is emitted
C19_Witness ==
    /\ Started(1)
    /\ generator.options.excludeRoutes = <<<<"/", "a">>>>
    /\ \E p \in PositionsOf(routeTree) :
           /\ fullPathAt(routeTree, p) = <<"/", "a", "/", "a">>
           /\ UnderExcluded(generator.options, routeTree, p)
           /\ fullPathAt(routeTree, parentOf(p)) = <<"/", "a">>
    /\ \A i \in 1..Len(calls[1].routes) : calls[1].routes[i].path # <<"/", "a">>
    /\ \E i \in 1..Len(calls[1].routes) :
           calls[1].routes[i].path = <<"/", "a", "/", "a">>

(***************************************************************************)
(* C20.  Exact string equality always matches: a candidate path equal to   *)
(* an exclude pattern, character for character, is excluded, whether the   *)
(* pattern holds '*', '?' or other special characters or none.  So no      *)
(* entry of a result is for a location equal to one of the patterns.       *)
(* (Violated: a pattern with '*' is only tested as a regular expression,   *)
(* and '/a+b*' as an expression does not match the path '/a+b*'.)          *)
(***************************************************************************)
C20_EqualPathExcluded ==
    \A c \in 1..MaxCalls :
        Done(c) =>
            LET o == generator.options
            IN  \A i \in 1..Len(o.excludeRoutes) :
                    /\ isExcludedRoute(o, o.excludeRoutes[i])
                    /\ \A k \in 1..Len(calls[c].result) :
                           calls[c].result[k].url
                               # buildFullUrl(o, o.excludeRoutes[i])


(***************************************************************************)
(* C21.  A manual entry is dropped exactly when its raw location, as the   *)
(* provider supplied it and before any base-URL or trailing-slash          *)
(* processing, matches an exclude pattern under the rule used for static   *)
(* routes; the remaining entries keep their relative order.  So the array  *)
(* the filter returns holds the non-matching entries of the provider's     *)
(* result, each at its rank among them, and when the conversion succeeds   *)
(* the manual part of the result has one entry for each, in that order.    *)
(***************************************************************************)
\* the provider's result arrived in call c and the filter has run
FilterRan(c) ==
    /\ Started(c)
    /\ ~calls[c].pending
    /\ "manualRoutes" \in DOMAIN generator.options
    /\ generator.options.manualRoutes.kind \in {"returns", "resolves"}
    /\ generator.options.manualRoutes.entries # NotAnArray

\* the indices of y whose raw location matches no exclude pattern
Unmatched(o, y) == { i \in 1..Len(y) : ~isExcludedRoute(o, y[i].location) }

\* the 1-based rank of i in the set of indices K
RankIn(K, i) == Cardinality({ j \in K : j <= i })

C21_ManualDroppedIffExcluded ==
    \A c \in 1..MaxCalls :
        FilterRan(c) =>
            LET o == generator.options
                y == o.manualRoutes.entries
                K == Unmatched(o, y)
                f == calls[c].filtered
                n == Len(calls[c].staticEntries)
            IN  /\ Len(f) = Cardinality(K)
                /\ \A i \in K : f[RankIn(K, i)] = y[i]
                /\ (Done(c) /\ ~calls[c].manual.warned) =>
                       /\ Len(calls[c].result) = n + Len(f)
                       /\ \A k \in 1..Len(f) :
                              calls[c].result[n + k].url
                                  = buildFullUrl(o, f[k].location)

\* with trailingSlash and the patterns '/m' and '/a/', the provider yielded
\* '/a', '/m', '/m/x': '/m' is dropped, '/a' and '/m/x' are kept in order
C21_Witness ==
    \E c \in 1..MaxCalls :
        /\ Done(c)
        /\ FilterRan(c)
        /\ generator.options.trailingSlash
        /\ Len(generator.options.manualRoutes.entries) = 3
        /\ Unmatched(generator.options, generator.options.manualRoutes.entries)
               = {1, 3}
        /\ Len(calls[c].result) = Len(calls[c].staticEntries) + 2
        /\ calls[c].result[Len(calls[c].staticEntries) + 1].url
               = <<"h", "/", "a", "/">>
        /\ calls[c].result[Len(calls[c].staticEntries) + 2].url
               = <<"h", "/", "m", "/", "x", "/">>


(***************************************************************************)
(* C22.  Every entry of every result of generateSitemapEntries, static or  *)
(* manual, has a url that is present and non-empty, for every accepted     *)
(* configuration (a baseUrl of '/' alone included) and every manual        *)
(* location (the empty string included).  (Violated: the baseUrl '/' is    *)
(* accepted and loses its slash, so the empty location gives the url ''.)  *)
(***************************************************************************)
C22_UrlNonEmpty ==
    \A c \in 1..MaxCalls :
        Done(c) =>
            \A i \in 1..Len(calls[c].result) :
                /\ "url" \in DOMAIN calls[c].result[i]
                /\ calls[c].result[i].url # <<>>


(***************************************************************************)
(* C23.  Malformed nodes.  As worded: a node with no path and no children  *)
(* contributes no path and no descendants to the output, a node whose      *)
(* children field is absent or not an array is treated as having no        *)
(* children, neither raises, and a null route yields no descriptors.       *)
(***************************************************************************)
\* the children field is absent or holds no array
LacksChildren(route) ==
    \/ "children" \notin DOMAIN route
    \/ route.children = NotAnArray

\* a node with no path and no children
PathlessLeaf(route) ==
    /\ route # NullRoute
    /\ "path" \notin DOMAIN route
    /\ "children" \notin DOMAIN route

\* route without the nodes that have no path and no children
RECURSIVE WithoutPathlessLeaves(_)
WithoutPathlessLeaves(route) ==
    IF route = NullRoute \/ PathlessLeaf(route) THEN NullRoute
    ELSE IF LacksChildren(route) THEN route
    ELSE [route EXCEPT !.children =
             SelectSeq([i \in 1..Len(route.children) |->
                           WithoutPathlessLeaves(route.children[i])],
                       LAMBDA t : t # NullRoute)]

\* what a lone node without children yields under parent path above: its
\* own descriptor or nothing
OwnPaths(o, route, above) ==
    LET fullPath == buildFullPath(above, pathOf(route))
    IN  IF /\ fullPath # <<>>
           /\ ~isDynamicRoute(pathOf(route))
           /\ ~isExcludedRoute(o, fullPath)
        THEN <<fullPath>>
        ELSE <<>>

\* the parts of C23 that do not concern what a pathless node contributes
AbsentChildrenAndNullRoute(c) ==
    /\ routeTree = NullRoute => calls[c].routes = <<>>
    /\ (routeTree # NullRoute /\ LacksChildren(routeTree)) =>
           pathsOf(calls[c].routes)
               = OwnPaths(generator.options, routeTree, <<>>)
    /\ \A p \in PositionsOf(routeTree) :
           LacksChildren(nodeAt(routeTree, p)) =>
               \A q \in PositionsOf(routeTree) : IsPrefix(p, q) => q = p

\* C23 as worded: the output is that of the tree without its nodes that
\* have neither path nor children (violated: such a node at the root, or
\* below a node with an empty full path, is emitted as '/')
C23_PathlessLeafContributesNothing ==
    \A c \in 1..MaxCalls :
        Started(c) =>
            /\ AbsentChildrenAndNullRoute(c)
            /\ pathsOf(calls[c].uniqueRoutes)
                   = pathsOf(uniqueRoutesOf(extractRoutesFromTree(
                         generator.options,
                         WithoutPathlessLeaves(routeTree), <<>>)))

\* C23, amended: a node with no path and no children takes the full path
\* of its parent, or '/' when that is empty, and yields one descriptor with
\* it unless the path is excluded (de-duplication then drops it when an
\* earlier node has the path); it has no descendants.  The rest as worded.
C23_MalformedNodesTolerated ==
    \A c \in 1..MaxCalls :
        Started(c) =>
            LET o == generator.options
                F == fullPaths(routeTree)
                E == EmittingAmong(o, routeTree, F)
                r == calls[c].routes
                above(p) == IF p = <<>> THEN <<>> ELSE F[parentOf(p)]
            IN  /\ AbsentChildrenAndNullRoute(c)
                /\ Len(r) = Cardinality(E)
                /\ \A p \in DOMAIN F :
                       PathlessLeaf(nodeAt(routeTree, p)) =>
                           /\ F[p] = IF above(p) # <<>> THEN above(p)
                                     ELSE <<"/">>
                           /\ p \in E <=> ~isExcludedRoute(o, F[p])
                           /\ p \in E => r[PreOrderRank(E, p)].path = F[p]

\* a node with no path and no children below a '__root__' node: the call
\* returned the one entry '/', which is the child's
C23_Witness ==
    \E c \in 1..MaxCalls :
        /\ Done(c)
        /\ routeTree = [path |-> RootName, children |-> <<EmptyObject>>]
        /\ pathsOf(calls[c].routes) = << <<"/">> >>
        /\ urlsOf(calls[c].result) = << <<"h", "/">> >>


(***************************************************************************)
(* C24.  After construction no generation operation (generateSitemap-      *)
(* Entries, generateXmlSitemap, entriesToXml) changes the generator's      *)
(* configuration, the caller's options object or the route tree passed in, *)
(* and each call returns a newly built result sequence, shared with no     *)
(* earlier or later call.                                                  *)
(***************************************************************************)
\* a step taken with a constructed generator leaves the three alone
InputsLeftAlone ==
    generator.status = "constructed" =>
        /\ generator' = generator
        /\ optionsArg' = optionsArg
        /\ routeTree' = routeTree

\* two calls that returned hold different arrays
ResultsNotShared ==
    \A c, d \in 1..MaxCalls :
        (c # d /\ Done(c) /\ Done(d)) =>
            /\ calls[c].resultId # 0
            /\ calls[c].resultId # calls[d].resultId

C24_GenerationChangesNothing == []ResultsNotShared /\ [][InputsLeftAlone]_vars

\* two calls in sequence on one generator have returned equal entries in
\* two arrays, and the configuration is the constructor's
C24_Witness ==
    /\ generator.status = "constructed"
    /\ \E now \in Times : generator.options = mergedOptions(optionsArg, now)
    /\ Done(1)
    /\ Done(2)
    /\ calls[2].startedAfter
    /\ calls[1].result = calls[2].result
    /\ calls[1].result # <<>>
    /\ calls[1].resultId # calls[2].resultId


(***************************************************************************)
(* C25.  For every finite route tree a generation call eventually          *)
(* completes with a result, provided the manual-routes provider eventually *)
(* settles, by resolving or rejecting; if the provider never settles the   *)
(* call never completes, there being no timeout and no cancellation.       *)
(***************************************************************************)
\* call c is under way and waits for no provider: there is none, or what
\* the provider returned has settled
ProviderSettled(c) ==
    /\ Started(c)
    /\ calls[c].pending => calls[c].settled

\* the provider of the generator returns a promise
ProviderDefers ==
    /\ generator.status = "constructed"
    /\ "manualRoutes" \in DOMAIN generator.options
    /\ generator.options.manualRoutes.kind \in {"resolves", "rejects"}

\* a call that left its await, with a result or an error, had its
\* provider's promise settled first
NoCompletionBeforeSettling ==
    \A c \in 1..MaxCalls :
        (ProviderDefers /\ Started(c) /\ ~calls[c].pending) => calls[c].settled

C25_CompletesIffProviderSettles ==
    /\ \A c \in 1..MaxCalls : ProviderSettled(c) ~> Done(c)
    /\ []NoCompletionBeforeSettling

\* generateXmlSitemap has returned a document after the provider's promise
\* resolved with two entries
C25_Witness ==
    \E c \in 1..MaxCalls :
        /\ Done(c)
        /\ ProviderDefers
        /\ generator.options.manualRoutes.kind = "resolves"
        /\ calls[c].settled
        /\ calls[c].api = "generateXmlSitemap"
        /\ Len(calls[c].result) = Len(calls[c].staticEntries) + 2
        /\ calls[c].xml # <<>>


(***************************************************************************)
(* C26.  De-duplication by final path leaves no two static entries of one  *)
(* result with the same url, for every route tree and configuration,       *)
(* trailingSlash and absolute paths ending in '/' included.  (Violated:    *)
(* the paths '/a' and '/a/' are both kept, and with trailingSlash both     *)
(* become the url base + '/a/'.)                                           *)
(***************************************************************************)
C26_StaticUrlsDistinct ==
    \A c \in 1..MaxCalls :
        Done(c) =>
            LET n == Len(calls[c].staticEntries)
            IN  /\ SubSeq(calls[c].result, 1, n) = calls[c].staticEntries
                /\ \A i, j \in 1..n :
                       i # j => calls[c].result[i].url # calls[c].result[j].url


(***************************************************************************)
(* C27.  The children of a dynamic node whose path does not start with '/' *)
(* are computed against an empty parent path: a non-dynamic child with     *)
(* segment s has the full path '/' + s, and an index child or a child with *)
(* no path has '/', whatever the paths of the dynamic node's ancestors.    *)
(* The child is emitted with that path unless a pattern excludes it.       *)
(***************************************************************************)
\* a dynamic segment that is no absolute path
RelativeDynamic(segment) ==
    isDynamicRoute(segment) /\ ~startsWith(segment, <<"/">>)

\* a segment that is joined to the parent path: no absolute path, no
\* dynamic segment, not empty, neither of the two markers
PlainSegment(segment) ==
    /\ segment \notin { <<>>, IndexName, RootName }
    /\ ~startsWith(segment, <<"/">>)
    /\ ~isDynamicRoute(segment)

C27_ChildrenOfDynamicStartAfresh ==
    \A c \in 1..MaxCalls :
        Started(c) =>
            LET o == generator.options
                F == fullPaths(routeTree)
                E == EmittingAmong(o, routeTree, F)
                r == calls[c].routes
            IN  \A p \in DOMAIN F :
                    (/\ p # <<>>
                     /\ RelativeDynamic(pathOf(nodeAt(routeTree, parentOf(p))))) =>
                        LET s == pathOf(nodeAt(routeTree, p))
                        IN  /\ PlainSegment(s) => F[p] = <<"/">> \o s
                            /\ s \in { <<>>, IndexName } => F[p] = <<"/">>
                            /\ (PlainSegment(s) \/ s \in { <<>>, IndexName }) =>
                                   /\ p \in E <=> ~isExcludedRoute(o, F[p])
                                   /\ p \in E =>
                                          /\ PreOrderRank(E, p) <= Len(r)
                                          /\ r[PreOrderRank(E, p)].path = F[p]

\* 'a' > '$b' > 'ab': the grandchild is emitted as '/ab', not '/a/ab'
C27_Witness ==
    \E c \in 1..MaxCalls :
        /\ Done(c)
        /\ routeTree = [path |-> <<"a">>, children |->
               <<[path |-> <<"$", "b">>, children |-> <<[path |-> <<"a", "b">>]>>]>>]
        /\ pathsOf(calls[c].routes) = << <<"/", "a">>, <<"/", "a", "b">> >>
        /\ urlsOf(calls[c].result) = << <<"h", "/", "a">>, <<"h", "/", "a", "b">> >>


(***************************************************************************)
(* C28.  Manual entries are all or nothing: when the provider's result is  *)
(* obtained but filtering or converting it raises (the result is no        *)
(* sequence, or the conversion of one entry fails), the result of the call *)
(* holds no manual entry at all, not even those that convert, and still    *)
(* holds every static entry.                                               *)
(***************************************************************************)
\* the provider of the generator yielded a result
ProviderYielded ==
    /\ generator.status = "constructed"
    /\ "manualRoutes" \in DOMAIN generator.options
    /\ generator.options.manualRoutes.kind \in {"returns", "resolves"}

\* the result is no sequence, or a non-excluded entry of it does not convert
HandlingRaises ==
    \/ generator.options.manualRoutes.entries = NotAnArray
    \/ ConversionRaises(generator.options)

C28_ManualAllOrNothing ==
    \A c \in 1..MaxCalls :
        (Done(c) /\ ProviderYielded /\ HandlingRaises) =>
            /\ calls[c].manual.warned
            /\ calls[c].result = staticEntriesAlone(generator.options, routeTree)

\* the provider yielded '/m', which converts, and then an entry with an
\* invalid Date: the call returned the three static entries alone
C28_Witness ==
    \E c \in 1..MaxCalls :
        /\ Done(c)
        /\ ProviderYielded
        /\ generator.options.excludeRoutes = <<>>
        /\ Len(yieldedBy(generator.options)) = 2
        /\ ~manualThrows(yieldedBy(generator.options)[1])
        /\ manualThrows(yieldedBy(generator.options)[2])
        /\ Len(calls[c].result) = 3
        /\ calls[c].result = calls[c].staticEntries

=============================================================================
